---------------------------- MODULE Spec2Model ----------------------------
(***************************************************************************)
(* Model of the orchestration and resilience engine of kosmo:              *)
(*   src/src/kosmo/errors.py  error classification, degradation messages   *)
(*   src/src/kosmo/agent.py   tool retry wrapper, KosmoAgent.query         *)
(*                                                                         *)
(* Text is modelled as a sequence of one-character strings, so that        *)
(* lower(), the "in" substring test, startswith and the f-string           *)
(* concatenations are computed the way the Python code computes them.      *)
(*                                                                         *)
(* Three specifications share the module:                                  *)
(*   SpecClassify  classify_error / is_transient_error on bounded messages *)
(*   SpecWrap      one call of the function built by _wrap_tool_with_retry *)
(*   Spec          a KosmoAgent serving queries                            *)
(* Each one keeps the variables of the other two at their idle values.     *)
(***************************************************************************)
EXTENDS Integers, Sequences, FiniteSets, TLC

VARIABLES
    \* ---- SpecClassify
    c_pc,              \* "off" | "start" | "done"
    error_message,     \* the argument of classify_error
    category,          \* the ErrorCategory value returned
    is_transient       \* is_transient_error(category)

cvars == <<c_pc, error_message, category, is_transient>>

VARIABLES
    \* ---- SpecWrap: one call of wrapped_func
    w_pc,              \* "off" | "loop" | "returned"
    w_max_retries,     \* the max_retries the wrapper was built with
    tool_func,         \* what the wrapped tool does on its 1st, 2nd, ... call
    w_attempt,         \* the loop variable attempt
    w_result,          \* the local variable result (None until assigned)
    w_last_error,      \* the local variable last_error
    w_returned,        \* the value wrapped_func returned
    w_calls,           \* how many times tool_func has been called
    w_slept            \* the arguments of the time.sleep calls, in order

wvars == <<w_pc, w_max_retries, tool_func, w_attempt, w_result, w_last_error,
           w_returned, w_calls, w_slept>>

VARIABLES
    \* ---- Spec: the KosmoAgent's fields
    verbose,               \* self.verbose
    max_retries,           \* self.max_retries
    enable_memory,         \* self.enable_memory
    graceful_degradation,  \* self.graceful_degradation
    _llm,                  \* self._llm is not None
    _checkpointer,         \* the InMemorySaver: thread id -> messages of the thread
    _current_thread_id,    \* self._current_thread_id
    _sessions,             \* self._sessions: thread id -> session info
    _failed_tools,         \* self._failed_tools
    error_log,             \* self._error_handler.error_log
    messages,              \* self.messages
    \* ---- the process the agent runs in
    uuid_count,            \* how many ids uuid.uuid4() has issued
    clock,                 \* time.time()
    \* ---- the query call in progress (its frame) and what it did
    pc,                    \* "idle" | "loop" | "done"
    effective_thread_id,   \* the local effective_thread_id
    attempt,               \* the loop variable attempt
    last_response,         \* the local last_response
    current_message,       \* the local current_message
    rounds,                \* what agent.invoke did in each round of this query
    slept,                 \* the arguments of this query's time.sleep calls
    outcome,               \* how the call ended: a returned text or a raised error
    \* ---- bookkeeping of the bounded run
    steps                  \* the steps the run has spent

config == <<verbose, max_retries, enable_memory, graceful_degradation>>
frame == <<pc, effective_thread_id, attempt, last_response, current_message,
           rounds, slept, outcome>>
avars == <<config, _llm, _checkpointer, _current_thread_id, _sessions,
           _failed_tools, error_log, messages, uuid_count, clock, frame,
           steps>>

VARIABLES
    \* ---- a caller that keeps what list_sessions and get_failed_tools returned
    listed,                \* the dict list_sessions returned (None before a call)
    got_failed             \* the set get_failed_tools returned (None before a call)

svars == <<listed, got_failed>>

VARIABLES
    \* ---- threads that run query on one agent at the same time
    t_pc,                  \* thread -> the line of query it is at
    t_record,              \* thread -> the session info object it has loaded
    t_count,               \* thread -> the query_count it has read
    t_bound,               \* the session info object _sessions holds for the id
    t_made,                \* how many session info objects the threads have made
    t_before               \* the query_count of the id before the threads began

tvars == <<t_pc, t_record, t_count, t_bound, t_made, t_before>>

VARIABLES
    \* ---- SpecComplete: one call of _check_response_complete
    k_pc,                  \* "off" | "start" | "done"
    k_response,            \* the argument response
    k_is_complete,         \* the first component of the tuple returned
    k_retry_reason         \* the second one ("None" for None)

kvars == <<k_pc, k_response, k_is_complete, k_retry_reason>>

(***************************************************************************)
(* Bounds of the model                                                     *)
(***************************************************************************)
\* a message of SpecClassify is the concatenation of at most MaxFrags fragments
MaxFrags == 2
\* max_retries is drawn from 0..MaxAttempts
MaxAttempts == 3
\* the agent's max_retries is drawn from 1..MaxRetries
MaxRetries == 3
\* a run spends at most MaxSteps steps: one for each call of a method of the
\* agent, and for a call of query one more for each attempt it may make
MaxSteps == 4
NThreads == 2

(***************************************************************************)
(* Python str operations                                                   *)
(***************************************************************************)
UpperChars == <<"A","B","C","D","E","F","G","H","I","J","K","L","M","N","O","P","Q","R","S","T","U","V","W","X","Y","Z">>
LowerChars == <<"a","b","c","d","e","f","g","h","i","j","k","l","m","n","o","p","q","r","s","t","u","v","w","x","y","z">>

\* the lower-case letter of each upper-case letter
LowerOf ==
    [c \in { UpperChars[i] : i \in 1..Len(UpperChars) } |->
        LowerChars[CHOOSE i \in 1..Len(UpperChars) : UpperChars[i] = c]]

\* one character of str.lower()
lower_char(c) == IF c \in DOMAIN LowerOf THEN LowerOf[c] ELSE c

\* s.lower()
lower(s) == SubSeq([i \in 1..Len(s) |-> lower_char(s[i])], 1, Len(s))

\* pattern in s
str_in(pattern, s) ==
    \E i \in 0..(Len(s) - Len(pattern)) :
        SubSeq(s, i + 1, i + Len(pattern)) = pattern

\* s.startswith(prefix)
startswith(s, prefix) ==
    /\ Len(prefix) <= Len(s)
    /\ SubSeq(s, 1, Len(prefix)) = prefix

DigitChars == <<"0","1","2","3","4","5","6","7","8","9">>

\* str(n) for an int n >= 0
RECURSIVE int_str(_)
int_str(n) ==
    IF n < 10 THEN <<DigitChars[n + 1]>>
    ELSE int_str(n \div 10) \o <<DigitChars[(n % 10) + 1]>>

\* "".join(parts)
RECURSIVE concat(_)
concat(parts) ==
    IF parts = <<>> THEN <<>> ELSE Head(parts) \o concat(Tail(parts))

\* sep.join(parts)
RECURSIVE join(_, _)
join(sep, parts) ==
    IF parts = <<>> THEN <<>>
    ELSE IF Len(parts) = 1 THEN parts[1]
    ELSE parts[1] \o sep \o join(sep, Tail(parts))

(***************************************************************************)
(* errors.py                                                               *)
(***************************************************************************)
\* ErrorCategory: the enum's values
ErrorCategory ==
    {"api_error", "network_error", "rate_limit", "timeout", "authentication",
     "validation", "execution", "not_found", "unknown"}

\* ERROR_PATTERNS, in the dict's insertion order (the order .items() yields)
ERROR_PATTERNS == <<
    [category |-> "rate_limit",
     patterns |-> << <<"r","a","t","e"," ","l","i","m","i","t">>, <<"t","o","o"," ","m","a","n","y"," ","r","e","q","u","e","s","t","s">>,
                     <<"q","u","o","t","a"," ","e","x","c","e","e","d","e","d">>, <<"4","2","9">> >>],
    [category |-> "timeout",
     patterns |-> << <<"t","i","m","e","o","u","t">>, <<"t","i","m","e","d"," ","o","u","t">>, <<"c","o","n","n","e","c","t","i","o","n"," ","t","i","m","e","o","u","t">> >>],
    [category |-> "network_error",
     patterns |-> << <<"c","o","n","n","e","c","t","i","o","n"," ","e","r","r","o","r">>, <<"n","e","t","w","o","r","k"," ","e","r","r","o","r">>, <<"u","n","r","e","a","c","h","a","b","l","e">>,
                     <<"c","o","n","n","e","c","t","i","o","n"," ","r","e","f","u","s","e","d">>, <<"d","n","s"," ","r","e","s","o","l","u","t","i","o","n">> >>],
    [category |-> "authentication",
     patterns |-> << <<"a","p","i"," ","k","e","y"," ","n","o","t"," ","f","o","u","n","d">>, <<"u","n","a","u","t","h","o","r","i","z","e","d">>,
                     <<"a","u","t","h","e","n","t","i","c","a","t","i","o","n"," ","f","a","i","l","e","d">>, <<"i","n","v","a","l","i","d"," ","a","p","i"," ","k","e","y">>,
                     <<"4","0","3">>, <<"4","0","1">> >>],
    [category |-> "not_found",
     patterns |-> << <<"n","o","t"," ","f","o","u","n","d">>, <<"4","0","4">>, <<"n","o"," ","r","e","s","u","l","t","s">>,
                     <<"d","o","e","s"," ","n","o","t"," ","e","x","i","s","t">> >>],
    [category |-> "execution",
     patterns |-> << <<"s","y","n","t","a","x"," ","e","r","r","o","r">>, <<"e","x","e","c","u","t","i","o","n"," ","e","r","r","o","r">>, <<"r","u","n","t","i","m","e"," ","e","r","r","o","r">>,
                     <<"n","a","m","e"," ","e","r","r","o","r">>, <<"t","y","p","e"," ","e","r","r","o","r">> >> ] >>

\* any(pattern in error_lower for pattern in patterns)
any_pattern_in(patterns, error_lower) ==
    \E k \in 1..Len(patterns) : str_in(patterns[k], error_lower)

\* the for loop of classify_error over table[i..]
RECURSIVE classify_from(_, _, _)
classify_from(table, i, error_lower) ==
    IF i > Len(table) THEN "unknown"
    ELSE IF any_pattern_in(table[i].patterns, error_lower)
         THEN table[i].category
         ELSE classify_from(table, i + 1, error_lower)

\* a classifier that compares the message as written, without lower()
classify_error_cased(error_message_) ==
    classify_from(ERROR_PATTERNS, 1, error_message_)

\* a classifier that walks ERROR_PATTERNS with authentication moved to the front
classify_error_auth_first(error_message_) ==
    classify_from(<<ERROR_PATTERNS[4], ERROR_PATTERNS[1], ERROR_PATTERNS[2],
                    ERROR_PATTERNS[3], ERROR_PATTERNS[5], ERROR_PATTERNS[6]>>,
                  1, lower(error_message_))

classify_error(error_message_) ==
    LET error_lower == lower(error_message_)
    IN  classify_from(ERROR_PATTERNS, 1, error_lower)

is_transient_error(category_) ==
    category_ \in {"rate_limit", "timeout", "network_error"}

(***************************************************************************)
(* SpecClassify: ErrorHandler.should_retry applied to a bounded message    *)
(***************************************************************************)
\* the pieces the messages of SpecClassify are built from: patterns of every
\* category in several cases, halves of patterns that only match across a
\* joint, and text that matches nothing
Fragments ==
    { <<"r","a","t","e"," ","l","i","m","i","t">>, <<"R","a","t","e"," ","L","i","m","i","t">>, <<"R","A","T","E"," ","L","I","M","I","T"," ","e","x","c","e","e","d","e","d">>, <<"4","2","9">>,
      <<"T","i","m","e","d"," ","O","u","t">>, <<"t","i","m","e","o","u","t">>, <<"C","o","n","n","e","c","t","i","o","n"," ","e","r","r","o","r">>,
      <<"i","n","v","a","l","i","d"," ","a","p","i"," ","k","e","y">>, <<"I","n","v","a","l","i","d"," ","A","P","I"," ","K","e","y">>, <<"4","0","1">>, <<"4","0","3">>,
      <<"N","o","t"," ","F","o","u","n","d">>, <<"S","y","n","t","a","x"," ","E","r","r","o","r">>, <<"b","o","o","m">>, <<"4">>, <<"0","1">>, <<"r","a","t","e">>,
      <<" ","l","i","m","i","t">> }

FragmentSeqs == UNION { [1..n -> Fragments] : n \in 0..MaxFrags }

Messages == { concat(fs) : fs \in FragmentSeqs }

\* the state in which should_retry is called with a message; the wrapper and
\* the agent are not in use
InitClassify ==
    /\ c_pc = "start"
    /\ error_message \in Messages
    /\ category = "none"
    /\ is_transient = FALSE
    /\ w_pc = "off"
    /\ w_max_retries = 0
    /\ tool_func = <<>>
    /\ w_attempt = 0
    /\ w_result = <<>>
    /\ w_last_error = <<>>
    /\ w_returned = <<>>
    /\ w_calls = 0
    /\ w_slept = <<>>
    /\ verbose = FALSE
    /\ max_retries = 0
    /\ enable_memory = FALSE
    /\ graceful_degradation = FALSE
    /\ _llm = FALSE
    /\ _checkpointer = <<>>
    /\ uuid_count = 1
    /\ _current_thread_id = <<"uuid", 1>>
    /\ _sessions = <<>>
    /\ _failed_tools = {}
    /\ error_log = <<>>
    /\ messages = <<>>
    /\ clock = 0
    /\ pc = "off"
    /\ effective_thread_id = <<"uuid", 1>>
    /\ attempt = 0
    /\ last_response = <<>>
    /\ current_message = <<>>
    /\ rounds = <<>>
    /\ slept = <<>>
    /\ outcome = [kind |-> "none", value |-> <<>>]
    /\ steps = 0
    /\ listed = <<>>
    /\ got_failed = <<>>
    /\ t_pc = <<>>
    /\ t_record = <<>>
    /\ t_count = <<>>
    /\ t_bound = 0
    /\ t_made = 0
    /\ t_before = 0
    /\ k_pc = "off"
    /\ k_response = <<>>
    /\ k_is_complete = FALSE
    /\ k_retry_reason = "None"

\* ErrorHandler.should_retry: classify the message, ask whether the category
\* is transient
should_retry ==
    /\ c_pc = "start"
    /\ category' = classify_error(error_message)
    /\ is_transient' = is_transient_error(category')
    /\ c_pc' = "done"
    /\ UNCHANGED <<error_message, wvars, avars, svars, tvars, kvars>>

NextClassify == should_retry

(***************************************************************************)
(* agent.py: the tool retry wrapper                                        *)
(***************************************************************************)
\* Optional values: None, or a value that is set
None == <<>>
MAX_RETRIES == 3
Some(x) == <<x>>

RETRY_DELAY == 1

INCOMPLETE_INDICATORS ==
    << <<"e","r","r","o","r",":">>, <<"f","a","i","l","e","d"," ","t","o">>, <<"c","o","u","l","d"," ","n","o","t">>, <<"u","n","a","b","l","e"," ","t","o">>,
       <<"n","o"," ","r","e","s","u","l","t","s"," ","f","o","u","n","d">>, <<"a","p","i"," ","k","e","y"," ","n","o","t"," ","f","o","u","n","d">>, <<"r","a","t","e"," ","l","i","m","i","t">>,
       <<"t","i","m","e","o","u","t">>, <<"c","o","n","n","e","c","t","i","o","n"," ","e","r","r","o","r">> >>

_is_result_incomplete(result) ==
    IF result = <<>> THEN TRUE
    ELSE LET result_lower == lower(result)
         IN  \E k \in 1..Len(INCOMPLETE_INDICATORS) :
                str_in(INCOMPLETE_INDICATORS[k], result_lower)

\* the list of line 80
RetryPhrases ==
    << <<"r","a","t","e"," ","l","i","m","i","t">>, <<"t","i","m","e","o","u","t">>, <<"c","o","n","n","e","c","t","i","o","n"," ","e","r","r","o","r">>, <<"a","p","i"," ","e","r","r","o","r">> >>

\* the test of lines 78-81 without its .lower()
has_retry_phrase_cased(result) ==
    \E k \in 1..Len(RetryPhrases) : str_in(RetryPhrases[k], result)

\* any(err in result.lower() for err in [...]), lines 78-81
has_retry_phrase(result) ==
    \E k \in 1..Len(RetryPhrases) : str_in(RetryPhrases[k], lower(result))

\* What a tool does on one call: it raises an exception whose str() is text,
\* or it returns text.
ToolReturns ==
    { <<"S","u","c","c","e","s","s">>, <<"R","a","t","e"," ","l","i","m","i","t"," ","e","x","c","e","e","d","e","d">>, <<"N","o"," ","r","e","s","u","l","t","s"," ","f","o","u","n","d">>,
      <<"A","P","I"," ","e","r","r","o","r",":"," ","5","0","0">>, <<>> }
ToolRaises == { <<"N","e","t","w","o","r","k"," ","e","r","r","o","r">>, <<"A","l","w","a","y","s"," ","f","a","i","l","s">> }
ToolOutcomes ==
    [raises : {FALSE}, text : ToolReturns] \cup [raises : {TRUE}, text : ToolRaises]

\* wrapped_func is entered: _wrap_tool_with_retry(tool_func, max_retries)(...)
InitWrap ==
    /\ w_pc = "loop"
    /\ w_max_retries \in 0..MaxAttempts
    /\ tool_func \in [1..w_max_retries -> ToolOutcomes]
    /\ w_attempt = 0
    /\ w_result = None
    /\ w_last_error = None
    /\ w_returned = None
    /\ w_calls = 0
    /\ w_slept = <<>>
    /\ c_pc = "off"
    /\ error_message = <<>>
    /\ category = "none"
    /\ is_transient = FALSE
    /\ verbose = FALSE
    /\ max_retries = 0
    /\ enable_memory = FALSE
    /\ graceful_degradation = FALSE
    /\ _llm = FALSE
    /\ _checkpointer = <<>>
    /\ uuid_count = 1
    /\ _current_thread_id = <<"uuid", 1>>
    /\ _sessions = <<>>
    /\ _failed_tools = {}
    /\ error_log = <<>>
    /\ messages = <<>>
    /\ clock = 0
    /\ pc = "off"
    /\ effective_thread_id = <<"uuid", 1>>
    /\ attempt = 0
    /\ last_response = <<>>
    /\ current_message = <<>>
    /\ rounds = <<>>
    /\ slept = <<>>
    /\ outcome = [kind |-> "none", value |-> <<>>]
    /\ steps = 0
    /\ listed = <<>>
    /\ got_failed = <<>>
    /\ t_pc = <<>>
    /\ t_record = <<>>
    /\ t_count = <<>>
    /\ t_bound = 0
    /\ t_made = 0
    /\ t_before = 0
    /\ k_pc = "off"
    /\ k_response = <<>>
    /\ k_is_complete = FALSE
    /\ k_retry_reason = "None"

\* the outcome of the call of line 74 in the current iteration
ThisCall == tool_func[w_calls + 1]

InLoop == w_pc = "loop" /\ w_attempt < w_max_retries

\* lines 74-84, the result is returned
WrapReturnResult ==
    /\ InLoop
    /\ ~ThisCall.raises
    /\ ~(/\ _is_result_incomplete(ThisCall.text)
         /\ w_attempt < w_max_retries - 1
         /\ has_retry_phrase(ThisCall.text))
    /\ w_calls' = w_calls + 1
    /\ w_result' = Some(ThisCall.text)
    /\ w_returned' = Some(ThisCall.text)
    /\ w_pc' = "returned"
    /\ UNCHANGED <<cvars, avars, svars, tvars, kvars, w_max_retries, tool_func, w_attempt, w_last_error, w_slept>>

\* lines 74-83, the result looks transient and attempts remain: sleep, continue
WrapRetryResult ==
    /\ InLoop
    /\ ~ThisCall.raises
    /\ _is_result_incomplete(ThisCall.text)
    /\ w_attempt < w_max_retries - 1
    /\ has_retry_phrase(ThisCall.text)
    /\ w_calls' = w_calls + 1
    /\ w_result' = Some(ThisCall.text)
    /\ w_slept' = Append(w_slept, RETRY_DELAY * (w_attempt + 1))
    /\ w_attempt' = w_attempt + 1
    /\ UNCHANGED <<cvars, avars, svars, tvars, kvars, w_pc, w_max_retries, tool_func, w_last_error, w_returned>>

\* lines 85-89, the tool raised and attempts remain: sleep, continue
WrapRetryException ==
    /\ InLoop
    /\ ThisCall.raises
    /\ w_attempt < w_max_retries - 1
    /\ w_calls' = w_calls + 1
    /\ w_last_error' = Some(ThisCall.text)
    /\ w_slept' = Append(w_slept, RETRY_DELAY * (w_attempt + 1))
    /\ w_attempt' = w_attempt + 1
    /\ UNCHANGED <<cvars, avars, svars, tvars, kvars, w_pc, w_max_retries, tool_func, w_result, w_returned>>

\* a give-up that returns the message of the exception as it is
WrapGiveUp_bare ==
    /\ InLoop
    /\ ThisCall.raises
    /\ ~(w_attempt < w_max_retries - 1)
    /\ w_calls' = w_calls + 1
    /\ w_last_error' = Some(ThisCall.text)
    /\ w_returned' = Some(ThisCall.text)
    /\ w_pc' = "returned"
    /\ UNCHANGED <<cvars, avars, svars, tvars, kvars, w_max_retries, tool_func, w_attempt, w_result, w_slept>>

\* lines 85-90, the tool raised on the last attempt
WrapGiveUp ==
    /\ InLoop
    /\ ThisCall.raises
    /\ ~(w_attempt < w_max_retries - 1)
    /\ w_calls' = w_calls + 1
    /\ w_last_error' = Some(ThisCall.text)
    /\ w_returned' = Some(<<"E","r","r","o","r"," ","a","f","t","e","r"," ">> \o int_str(w_max_retries)
                             \o <<" ","a","t","t","e","m","p","t","s",":"," ">> \o ThisCall.text)
    /\ w_pc' = "returned"
    /\ UNCHANGED <<cvars, avars, svars, tvars, kvars, w_max_retries, tool_func, w_attempt, w_result, w_slept>>

\* line 91, the loop ended without a return
WrapLoopEnd ==
    /\ w_pc = "loop"
    /\ ~(w_attempt < w_max_retries)
    /\ w_returned' =
          IF w_result # None THEN w_result
          ELSE Some(<<"F","a","i","l","e","d"," ","a","f","t","e","r"," ">> \o int_str(w_max_retries) \o <<" ","a","t","t","e","m","p","t","s">>)
    /\ w_pc' = "returned"
    /\ UNCHANGED <<cvars, avars, svars, tvars, kvars, w_max_retries, tool_func, w_attempt, w_result, w_last_error,
                   w_calls, w_slept>>

NextWrap ==
    \/ WrapReturnResult
    \/ WrapRetryResult
    \/ WrapRetryException
    \/ WrapGiveUp
    \/ WrapLoopEnd

(***************************************************************************)
(* errors.py: ErrorHandler                                                 *)
(***************************************************************************)
web_search == <<"w","e","b","_","s","e","a","r","c","h">>
search_wikipedia == <<"s","e","a","r","c","h","_","w","i","k","i","p","e","d","i","a">>
execute_code == <<"e","x","e","c","u","t","e","_","c","o","d","e">>
create_plot == <<"c","r","e","a","t","e","_","p","l","o","t">>

\* list(s) for a set s of tool names: the names once each, in any of the
\* orders in which a process may iterate the set
Lists(s) ==
    { l \in [1..Cardinality(s) -> s] :
        \A i, j \in 1..Cardinality(s) : l[i] = l[j] => i = j }

\* ErrorHandler.handle_tool_error: the record it appends to log
handle_tool_error(log, tool_name, error_message_) ==
    Append(log, [tool |-> tool_name,
                 category |-> classify_error(error_message_),
                 message |-> error_message_,
                 is_transient |-> is_transient_error(classify_error(error_message_))])

\* ErrorHandler.get_degradation_message(failed_tools), failed_tools a list
get_degradation_message(failed_list) ==
    IF failed_list = <<>> THEN <<>>
    ELSE
      LET failed == { failed_list[i] : i \in 1..Len(failed_list) }
          working_tools ==
              {web_search, search_wikipedia, execute_code, create_plot} \ failed
      IN  IF working_tools = {}
          THEN <<"A","l","l"," ","t","o","o","l","s"," ","a","r","e"," ","c","u","r","r","e","n","t","l","y"," ","u","n","a","v","a","i","l","a","b","l","e","."," ","I"," ","c","a","n"," ","o","n","l","y"," ","p","r","o","v","i","d","e"," ","i","n","f","o","r","m","a","t","i","o","n"," ","f","r","o","m"," ","m","y"," ","t","r","a","i","n","i","n","g"," ","d","a","t","a",".">>
          ELSE join(<<" ">>,
                 << <<"N","o","t","e",":"," ">> \o join(<<","," ">>, failed_list) \o <<" ">>
                      \o (IF Len(failed_list) = 1 THEN <<"i","s">> ELSE <<"a","r","e">>)
                      \o <<" ","c","u","r","r","e","n","t","l","y"," ","u","n","a","v","a","i","l","a","b","l","e",".">> >>
                 \o (IF web_search \in failed /\ search_wikipedia \in working_tools
                     THEN << <<"U","s","i","n","g"," ","W","i","k","i","p","e","d","i","a"," ","f","o","r"," ","f","a","c","t"," ","l","o","o","k","u","p"," ","i","n","s","t","e","a","d"," ","o","f"," ","w","e","b"," ","s","e","a","r","c","h",".">> >>
                     ELSE <<>>)
                 \o (IF create_plot \in failed
                     THEN << <<"U","n","a","b","l","e"," ","t","o"," ","g","e","n","e","r","a","t","e"," ","v","i","s","u","a","l","i","z","a","t","i","o","n","s","."," ","P","r","o","v","i","d","i","n","g"," ","n","u","m","e","r","i","c","a","l"," ","r","e","s","u","l","t","s"," ","o","n","l","y",".">> >>
                     ELSE <<>>))

\* ErrorHandler.get_error_summary: the number of records of each category
\* that log holds; a category without a record is no key of the dict
get_error_summary(log) ==
    [c \in { log[i].category : i \in 1..Len(log) } |->
        Cardinality({ i \in 1..Len(log) : log[i].category = c })]

(***************************************************************************)
(* agent.py: KosmoAgent                                                    *)
(***************************************************************************)
\* The messages agent.invoke returns are objects with type, content and
\* tool_calls; the entries query itself appends to self.messages are plain
\* dicts, which have neither attribute.
HumanMessage(content) == [type |-> "human", content |-> content, tool_calls |-> <<>>]
AIMessage(content, tool_calls) ==
    [type |-> "ai", content |-> content, tool_calls |-> tool_calls]
ToolMessage(content) == [type |-> "tool", content |-> content, tool_calls |-> <<>>]
UserDict(content) == [type |-> "dict", content |-> content, tool_calls |-> <<>>]

NoResponse == <<"N","o"," ","r","e","s","p","o","n","s","e"," ","g","e","n","e","r","a","t","e","d",".">>

failure_phrases ==
    << <<"i"," ","w","a","s"," ","u","n","a","b","l","e"," ","t","o">>, <<"i"," ","c","o","u","l","d","n","'","t"," ","c","o","m","p","l","e","t","e">>, <<"t","h","e"," ","t","o","o","l"," ","f","a","i","l","e","d">>,
       <<"e","r","r","o","r"," ","o","c","c","u","r","r","e","d">>, <<"i"," ","a","p","o","l","o","g","i","z","e",","," ","b","u","t"," ","i"," ","c","a","n","n","o","t">> >>

\* a _check_response_complete that looks for the phrases in the response as
\* it is written
_check_response_complete_cased(response_) ==
    IF response_ = <<>> \/ response_ = NoResponse
    THEN [is_complete |-> FALSE, retry_reason |-> "empty_response"]
    ELSE IF \E k \in 1..Len(failure_phrases) : str_in(failure_phrases[k], response_)
         THEN [is_complete |-> FALSE, retry_reason |-> "tool_failure"]
         ELSE [is_complete |-> TRUE, retry_reason |-> "None"]

\* _check_response_complete: (is_complete, retry_reason)
_check_response_complete(response_) ==
    IF response_ = <<>> \/ response_ = NoResponse
    THEN [is_complete |-> FALSE, retry_reason |-> "empty_response"]
    ELSE LET response_lower == lower(response_)
         IN  IF \E k \in 1..Len(failure_phrases) :
                    str_in(failure_phrases[k], response_lower)
             THEN [is_complete |-> FALSE, retry_reason |-> "tool_failure"]
             ELSE [is_complete |-> TRUE, retry_reason |-> "None"]

\* the reversed loop of _extract_response from msgs[i] down
RECURSIVE extract_from(_, _)
extract_from(msgs, i) ==
    IF i = 0 THEN None
    ELSE IF /\ msgs[i].type # "dict"
            /\ msgs[i].content # <<>>
            /\ msgs[i].type # "tool"
         THEN Some(msgs[i].content)
         ELSE extract_from(msgs, i - 1)

_extract_response(msgs) ==
    IF msgs = <<>> THEN None ELSE extract_from(msgs, Len(msgs))

_is_tool_error(content) ==
    IF content = <<>> THEN TRUE ELSE startswith(lower(content), <<"e","r","r","o","r">>)

\* a _handle_tool_failure that adds the name and logs nothing
_handle_tool_failure_unlogged(tracked, tool_name, error_message_) ==
    IF graceful_degradation
    THEN [failed |-> tracked.failed \cup {tool_name}, log |-> tracked.log]
    ELSE tracked

\* a _handle_tool_failure that does not ask whether graceful degradation
\* is on
_handle_tool_failure_always(tracked, tool_name, error_message_) ==
    [failed |-> tracked.failed \cup {tool_name},
     log |-> handle_tool_error(tracked.log, tool_name, error_message_)]

\* _handle_tool_failure on the pair (failed tools, error log)
_handle_tool_failure(tracked, tool_name, error_message_) ==
    IF graceful_degradation
    THEN [failed |-> tracked.failed \cup {tool_name},
          log |-> handle_tool_error(tracked.log, tool_name, error_message_)]
    ELSE tracked

\* the loop of _print_steps from msgs[i] on; what it prints is not modelled,
\* what it records is
RECURSIVE print_steps_from(_, _, _, _)
print_steps_from(msgs, i, current_tool_name, tracked) ==
    IF i > Len(msgs) THEN tracked
    ELSE IF msgs[i].type = "ai" /\ msgs[i].tool_calls # <<>>
         THEN print_steps_from(msgs, i + 1,
                  Some(msgs[i].tool_calls[Len(msgs[i].tool_calls)]), tracked)
    ELSE IF /\ msgs[i].type = "tool"
            /\ _is_tool_error(msgs[i].content)
            /\ current_tool_name # None
         THEN print_steps_from(msgs, i + 1, current_tool_name,
                  _handle_tool_failure(tracked, current_tool_name[1], msgs[i].content))
    ELSE print_steps_from(msgs, i + 1, current_tool_name, tracked)

_print_steps(msgs) ==
    print_steps_from(msgs, 1, None, [failed |-> _failed_tools, log |-> error_log])

\* a _format_degraded_response that appends the notice whether or not the
\* response holds it
_format_degraded_response_again(response, failed_list) ==
    IF /\ graceful_degradation
       /\ failed_list # <<>>
       /\ get_degradation_message(failed_list) # <<>>
    THEN response \o <<"\n","\n","-","-","-","\n">> \o get_degradation_message(failed_list)
    ELSE response

\* _format_degraded_response, list(self._failed_tools) being failed_list;
\* lines 331-334 of query are the same statement
_format_degraded_response(response, failed_list) ==
    IF /\ graceful_degradation
       /\ failed_list # <<>>
       /\ get_degradation_message(failed_list) # <<>>
       /\ ~str_in(get_degradation_message(failed_list), response)
    THEN response \o <<"\n","\n","-","-","-","\n">> \o get_degradation_message(failed_list)
    ELSE response

_format_error_response(error) ==
    <<"I"," ","e","n","c","o","u","n","t","e","r","e","d"," ","a","n"," ","e","r","r","o","r"," ","w","h","i","l","e"," ","p","r","o","c","e","s","s","i","n","g"," ","y","o","u","r"," ","r","e","q","u","e","s","t",":"," ">> \o error \o <<"\n">>
    \o (IF classify_error(error) = "authentication"
        THEN <<"\n","P","l","e","a","s","e"," ","c","h","e","c","k"," ","t","h","a","t"," ","y","o","u","r"," ","A","P","I"," ","k","e","y","s"," ","a","r","e"," ","c","o","r","r","e","c","t","l","y"," ","c","o","n","f","i","g","u","r","e","d"," ","i","n"," ","t","h","e"," ",".","e","n","v"," ","f","i","l","e",".">>
        ELSE IF classify_error(error) = "network_error"
        THEN <<"\n","P","l","e","a","s","e"," ","c","h","e","c","k"," ","y","o","u","r"," ","i","n","t","e","r","n","e","t"," ","c","o","n","n","e","c","t","i","o","n"," ","a","n","d"," ","t","r","y"," ","a","g","a","i","n",".">>
        ELSE IF classify_error(error) = "rate_limit"
        THEN <<"\n","T","h","e"," ","s","e","r","v","i","c","e"," ","i","s"," ","r","a","t","e","-","l","i","m","i","t","e","d","."," ","P","l","e","a","s","e"," ","w","a","i","t"," ","a"," ","m","o","m","e","n","t"," ","a","n","d"," ","t","r","y"," ","a","g","a","i","n",".">>
        ELSE <<"\n","P","l","e","a","s","e"," ","t","r","y"," ","r","e","p","h","r","a","s","i","n","g"," ","y","o","u","r"," ","q","u","e","s","t","i","o","n"," ","o","r"," ","t","r","y"," ","a","g","a","i","n"," ","l","a","t","e","r",".">>)

base_msg == <<"P","l","e","a","s","e"," ","t","r","y"," ","a","g","a","i","n"," ","t","o"," ","c","o","m","p","l","e","t","e"," ","t","h","e"," ","p","r","e","v","i","o","u","s"," ","r","e","q","u","e","s","t",".">>

\* _build_retry_message, the iteration of self._failed_tools yielding failed_list
_build_retry_message(retry_reason, failed_list) ==
    IF retry_reason = "tool_failure"
    THEN IF failed_list # <<>>
         THEN base_msg \o <<" ","T","h","e"," ","f","o","l","l","o","w","i","n","g"," ","t","o","o","l","s"," ","h","a","v","e"," ","f","a","i","l","e","d",":"," ">>
              \o join(<<","," ">>, failed_list) \o <<"."," ">>
              \o <<"P","l","e","a","s","e"," ","t","r","y"," ","a","n"," ","a","l","t","e","r","n","a","t","i","v","e"," ","a","p","p","r","o","a","c","h"," ","u","s","i","n","g"," ","d","i","f","f","e","r","e","n","t"," ","t","o","o","l","s"," ","o","r"," ">>
              \o <<"p","r","o","v","i","d","e"," ","t","h","e"," ","b","e","s","t"," ","a","n","s","w","e","r"," ","y","o","u"," ","c","a","n"," ","w","i","t","h"," ","a","v","a","i","l","a","b","l","e"," ","i","n","f","o","r","m","a","t","i","o","n",".">>
         ELSE base_msg \o <<" ","I","f"," ","a"," ","t","o","o","l"," ","f","a","i","l","e","d",","," ","t","r","y"," ","a","n"," ","a","l","t","e","r","n","a","t","i","v","e"," ","a","p","p","r","o","a","c","h",".">>
    ELSE IF retry_reason = "empty_response"
    THEN base_msg \o <<" ","P","l","e","a","s","e"," ","p","r","o","v","i","d","e"," ","a"," ","c","o","m","p","l","e","t","e"," ","a","n","s","w","e","r",".">>
    ELSE base_msg \o <<" ","T","r","y"," ","a","n"," ","a","l","t","e","r","n","a","t","i","v","e"," ","a","p","p","r","o","a","c","h"," ","i","f"," ","n","e","e","d","e","d",".">>

(***************************************************************************)
(* The collaborators of query: the caller and the reasoning engine         *)
(***************************************************************************)
\* thread ids: those uuid.uuid4() issues and those a caller makes up
Uuid(k) == <<"uuid", k>>
CallerIds == { <<"caller", 1>> }
IssuedIds == { Uuid(k) : k \in 1..uuid_count }

Questions == { <<"W","h","a","t"," ","i","s"," ","6"," ","x"," ","7","?">>, <<>> }

\* the str() of the exceptions agent.invoke raises
EngineErrors ==
    { <<"4","0","1"," ","U","n","a","u","t","h","o","r","i","z","e","d">>, <<"C","o","n","n","e","c","t","i","o","n"," ","e","r","r","o","r",".">>, <<"R","a","t","e"," ","l","i","m","i","t"," ","e","x","c","e","e","d","e","d">>,
      <<"b","o","o","m">> }

\* the final texts of the reasoning engine
\* the tool use of one round: none, or one call and its result
NoTool == <<>>
SearchFails == << AIMessage(<<>>, <<web_search>>), ToolMessage(<<"E","r","r","o","r",":"," ","x">>) >>
PlotEmpty == << AIMessage(<<>>, <<create_plot>>), ToolMessage(<<>>) >>
\* one assistant message that calls two tools; their results follow in the
\* order of the calls, the search failing and the plot succeeding
SearchFailsPlotWorks ==
    << AIMessage(<<>>, <<web_search, create_plot>>), ToolMessage(<<"E","r","r","o","r",":"," ","x">>),
       ToolMessage(<<"P","l","o","t"," ","s","a","v","e","d">>) >>

\* an answer that repeats the note on create_plot that query puts in the
\* system prompt (lines 279-282)
PlotNote ==
    <<"N","o","t","e",":"," ","c","r","e","a","t","e","_","p","l","o","t"," ","i","s"," ","c","u","r","r","e","n","t","l","y"," ","u","n","a","v","a","i","l","a","b","l","e","."," ","U","n","a","b","l","e"," ","t","o"," ","g","e","n","e","r","a","t","e"," ","v","i","s","u","a","l","i","z","a","t","i","o","n","s","."," ","P","r","o","v","i","d","i","n","g"," ","n","u","m","e","r","i","c","a","l"," ","r","e","s","u","l","t","s"," ","o","n","l","y",".">>

\* what the engine adds to the thread in one round: the tool use, then its
\* answer (complete, one of two incomplete ones, without text, or the note)
Replies ==
    { NoTool \o <<AIMessage(<<"T","h","e"," ","a","n","s","w","e","r"," ","i","s"," ","4","2",".">>, <<>>)>>,
      SearchFails \o <<AIMessage(<<"T","h","e"," ","a","n","s","w","e","r"," ","i","s"," ","4","2",".">>, <<>>)>>,
      PlotEmpty \o <<AIMessage(<<"T","h","e"," ","a","n","s","w","e","r"," ","i","s"," ","4","2",".">>, <<>>)>>,
      NoTool \o <<AIMessage(<<"I"," ","w","a","s"," ","u","n","a","b","l","e"," ","t","o"," ","c","o","m","p","l","e","t","e",".">>, <<>>)>>,
      SearchFails \o <<AIMessage(<<"I"," ","w","a","s"," ","u","n","a","b","l","e"," ","t","o"," ","c","o","m","p","l","e","t","e",".">>, <<>>)>>,
      PlotEmpty \o <<AIMessage(<<"T","h","e"," ","t","o","o","l"," ","f","a","i","l","e","d",".">>, <<>>)>>,
      NoTool \o <<AIMessage(<<>>, <<>>)>>,
      SearchFails \o <<AIMessage(<<>>, <<>>)>>,
      SearchFailsPlotWorks \o <<AIMessage(PlotNote, <<>>)>> }

\* the messages the checkpointer holds for a thread
thread_messages(thread_id) ==
    IF thread_id \in DOMAIN _checkpointer THEN _checkpointer[thread_id] ELSE <<>>

\* result["messages"] of agent.invoke (lines 311-317) when the engine adds
\* reply: with a checkpointer the whole thread, without one this call's messages
output_messages(reply) ==
    (IF enable_memory THEN thread_messages(effective_thread_id) ELSE <<>>)
    \o <<HumanMessage(current_message)>> \o reply

\* what the reasoning engine is given in a round (lines 306-314): the one
\* message query passes, after the thread the checkpointer holds when
\* there is one
engine_input ==
    (IF enable_memory THEN thread_messages(effective_thread_id) ELSE <<>>)
    \o <<HumanMessage(current_message)>>

\* config["configurable"]["thread_id"] of a round (lines 305-309): the id
\* query resolved, when there is a checkpointer
configurable ==
    IF enable_memory THEN Some(effective_thread_id) ELSE None

NoOutcome == [kind |-> "none", value |-> <<>>]
Returned(text) == [kind |-> "returned", value |-> text]
Raised(text) == [kind |-> "raised", value |-> text]

\* KosmoAgent.__init__ (lines 156-174)
Init ==
    /\ verbose \in BOOLEAN
    /\ max_retries \in 1..MaxRetries
    /\ enable_memory \in BOOLEAN
    /\ graceful_degradation \in BOOLEAN
    /\ _llm = FALSE
    /\ _checkpointer = <<>>
    /\ uuid_count = 1
    /\ _current_thread_id = Uuid(1)
    /\ _sessions = <<>>
    /\ _failed_tools = {}
    /\ error_log = <<>>
    /\ messages = <<>>
    /\ clock = 0
    /\ pc = "idle"
    /\ effective_thread_id = Uuid(1)
    /\ attempt = 0
    /\ last_response = <<>>
    /\ current_message = <<>>
    /\ rounds = <<>>
    /\ slept = <<>>
    /\ outcome = NoOutcome
    /\ steps = 0
    /\ c_pc = "off"
    /\ error_message = <<>>
    /\ category = "none"
    /\ is_transient = FALSE
    /\ w_pc = "off"
    /\ w_max_retries = 0
    /\ tool_func = <<>>
    /\ w_attempt = 0
    /\ w_result = None
    /\ w_last_error = None
    /\ w_returned = None
    /\ w_calls = 0
    /\ w_slept = <<>>
    /\ listed = None
    /\ got_failed = None
    /\ t_pc = <<>>
    /\ t_record = <<>>
    /\ t_count = <<>>
    /\ t_bound = 0
    /\ t_made = 0
    /\ t_before = 0
    /\ k_pc = "off"
    /\ k_response = <<>>
    /\ k_is_complete = FALSE
    /\ k_retry_reason = "None"

\* a query starts only when the run has the steps left for all its attempts
CanStartQuery ==
    /\ pc \in {"idle", "done"}
    /\ steps + 1 + max_retries <= MaxSteps

\* query, lines 272-284, when _get_llm finds no OPENAI_API_KEY: the ValueError
\* leaves query before anything is recorded
QueryRaisesNoKey ==
    /\ CanStartQuery
    /\ ~_llm
    /\ pc' = "done"
    /\ outcome' = Raised(<<"O","P","E","N","A","I","_","A","P","I","_","K","E","Y"," ","n","o","t"," ","f","o","u","n","d"," ","i","n"," ","e","n","v","i","r","o","n","m","e","n","t"," ","v","a","r","i","a","b","l","e","s">>)
    /\ rounds' = <<>>
    /\ slept' = <<>>
    /\ steps' = steps + 1
    /\ UNCHANGED <<cvars, wvars, svars, tvars, kvars, config, _llm, _checkpointer, _current_thread_id, _sessions,
                   _failed_tools, error_log, messages, uuid_count, clock,
                   effective_thread_id, attempt, last_response, current_message>>

\* a dict with one more key, or one key rebound
Put(f, k, v) == [x \in DOMAIN f \cup {k} |-> IF x = k THEN v ELSE f[x]]

\* session tracking that makes a fresh record on every query
track_session_afresh(sessions, thread_id, now) ==
    Put(sessions, thread_id,
        [created_at |-> now, query_count |-> 1, last_query_at |-> now])

\* lines 289-296: the session's record is made if it is not there, its
\* query_count goes up by one, its last_query_at is the time
track_session(sessions, thread_id, now) ==
    LET tracked == IF thread_id \in DOMAIN sessions
                   THEN sessions[thread_id]
                   ELSE [created_at |-> now, query_count |-> 0,
                         last_query_at |-> now]
    IN  Put(sessions, thread_id,
            [tracked EXCEPT !.query_count = @ + 1, !.last_query_at = now])

\* Python's "thread_id or default" for an Optional[str]: None and the empty
\* string are both false, so either gives the default
or_else(thread_id, default) ==
    IF thread_id # None /\ thread_id[1] # <<>> THEN thread_id[1] ELSE default

\* query, lines 272-302: the agent is built, the session resolved and counted
QueryStart(question, thread_id) ==
    /\ CanStartQuery
    /\ _llm' = TRUE
    /\ LET effective == or_else(thread_id, _current_thread_id)
       IN  /\ effective_thread_id' = effective
           /\ _sessions' = track_session(_sessions, effective, clock)
    /\ messages' = Append(messages, UserDict(question))
    /\ last_response' = NoResponse
    /\ current_message' = question
    /\ attempt' = 0
    /\ rounds' = <<>>
    /\ slept' = <<>>
    /\ outcome' = NoOutcome
    /\ pc' = "loop"
    /\ clock' = clock + 1
    /\ steps' = steps + 1 + max_retries
    /\ UNCHANGED <<cvars, wvars, svars, tvars, kvars, config, _checkpointer, _current_thread_id, _failed_tools,
                   error_log, uuid_count>>

InRound == pc = "loop" /\ attempt < max_retries

\* lines 320-324: when verbose, _print_steps records the failures of the steps
Tracked(output) ==
    IF verbose THEN _print_steps(output)
    ELSE [failed |-> _failed_tools, log |-> error_log]

\* the tool results of reply that report a failure (_is_tool_error)
failed_invocations(reply) ==
    Cardinality({ i \in 1..Len(reply) :
                    reply[i].type = "tool" /\ _is_tool_error(reply[i].content) })

\* rounds that are run on the agent's current session, whatever the query
\* resolved
Invoked_current(reply, kind, text) ==
    /\ UNCHANGED steps
    /\ rounds' = Append(rounds, [kind |-> kind, text |-> text,
                                 failures |-> failed_invocations(reply),
                                 input |-> engine_input,
                                 thread_id |-> IF enable_memory
                                               THEN Some(_current_thread_id)
                                               ELSE None,
                                 current |-> _current_thread_id])
    /\ _checkpointer' =
          IF enable_memory
          THEN Put(_checkpointer, _current_thread_id, output_messages(reply))
          ELSE _checkpointer

\* what every round in which agent.invoke returns reply does: the
\* checkpointer holds the thread, the round is noted with the thread id of
\* its config and the agent's current session at the time
\* what every round in which agent.invoke returns reply does: the
\* checkpointer holds the thread, the round is noted
Invoked(reply, kind, text) ==
    /\ UNCHANGED steps
    /\ rounds' = Append(rounds, [kind |-> kind, text |-> text,
                                 failures |-> failed_invocations(reply),
                                 input |-> engine_input,
                                 thread_id |-> configurable,
                                 current |-> _current_thread_id])
    /\ _checkpointer' =
          IF enable_memory
          THEN Put(_checkpointer, effective_thread_id, output_messages(reply))
          ELSE _checkpointer

\* a complete round that returns last_response in place of the round's answer
RoundComplete_last_response(reply) ==
    LET output == output_messages(reply)
        response == _extract_response(output)
        tracked == Tracked(output)
    IN  /\ InRound
        /\ response # None
        /\ _check_response_complete(response[1]).is_complete
        /\ Invoked(reply, "complete", response[1])
        /\ messages' = output
        /\ _failed_tools' = tracked.failed
        /\ error_log' = tracked.log
        /\ \E failed_list \in Lists(tracked.failed) :
              outcome' = Returned(_format_degraded_response(last_response, failed_list))
        /\ pc' = "done"
        /\ UNCHANGED <<cvars, wvars, svars, tvars, kvars, config, _llm, _current_thread_id, _sessions,
                       uuid_count, clock, effective_thread_id, attempt,
                       last_response, current_message, slept>>

\* lines 304-335: the round's answer is complete and returned
RoundComplete(reply) ==
    LET output == output_messages(reply)
        response == _extract_response(output)
        tracked == Tracked(output)
    IN  /\ InRound
        /\ response # None
        /\ _check_response_complete(response[1]).is_complete
        /\ Invoked(reply, "complete", response[1])
        /\ messages' = output
        /\ _failed_tools' = tracked.failed
        /\ error_log' = tracked.log
        /\ \E failed_list \in Lists(tracked.failed) :
              outcome' = Returned(_format_degraded_response(response[1], failed_list))
        /\ pc' = "done"
        /\ UNCHANGED <<cvars, wvars, svars, tvars, kvars, config, _llm, _current_thread_id, _sessions, uuid_count,
                       clock, effective_thread_id, attempt, last_response,
                       current_message, slept>>

\* lines 304-349: the round's answer is incomplete and attempts remain
RoundIncompleteRetry(reply) ==
    LET output == output_messages(reply)
        response == _extract_response(output)
        tracked == Tracked(output)
    IN  /\ InRound
        /\ attempt < max_retries - 1
        /\ response # None
        /\ ~_check_response_complete(response[1]).is_complete
        /\ Invoked(reply, "incomplete", response[1])
        /\ \E failed_list \in Lists(tracked.failed) :
              LET retry_message ==
                      _build_retry_message(
                          _check_response_complete(response[1]).retry_reason,
                          failed_list)
              IN  /\ current_message' = retry_message
                  /\ messages' = Append(output, UserDict(retry_message))
        /\ _failed_tools' = tracked.failed
        /\ error_log' = tracked.log
        /\ last_response' = response[1]
        /\ slept' = Append(slept, RETRY_DELAY)
        /\ clock' = clock + RETRY_DELAY
        /\ attempt' = attempt + 1
        /\ UNCHANGED <<cvars, wvars, svars, tvars, kvars, config, _llm, _current_thread_id, _sessions, uuid_count,
                       pc, effective_thread_id, outcome>>

\* a last incomplete round that leaves last_response as it was (line 338
\* skipped) and returns it
RoundIncompleteReturn_stale(reply) ==
    LET output == output_messages(reply)
        response == _extract_response(output)
        tracked == Tracked(output)
    IN  /\ InRound
        /\ ~(attempt < max_retries - 1)
        /\ response # None
        /\ ~_check_response_complete(response[1]).is_complete
        /\ Invoked(reply, "incomplete", response[1])
        /\ messages' = output
        /\ _failed_tools' = tracked.failed
        /\ error_log' = tracked.log
        /\ \E failed_list \in Lists(tracked.failed) :
              outcome' = Returned(_format_degraded_response(last_response, failed_list))
        /\ pc' = "done"
        /\ UNCHANGED <<cvars, wvars, svars, tvars, kvars, config, _llm, _current_thread_id, _sessions,
                       uuid_count, clock, effective_thread_id, attempt,
                       last_response, current_message, slept>>

\* lines 304-352: the round's answer is incomplete on the last attempt
RoundIncompleteReturn(reply) ==
    LET output == output_messages(reply)
        response == _extract_response(output)
        tracked == Tracked(output)
    IN  /\ InRound
        /\ ~(attempt < max_retries - 1)
        /\ response # None
        /\ ~_check_response_complete(response[1]).is_complete
        /\ Invoked(reply, "incomplete", response[1])
        /\ messages' = output
        /\ _failed_tools' = tracked.failed
        /\ error_log' = tracked.log
        /\ last_response' = response[1]
        /\ \E failed_list \in Lists(tracked.failed) :
              outcome' = Returned(_format_degraded_response(response[1], failed_list))
        /\ pc' = "done"
        /\ UNCHANGED <<cvars, wvars, svars, tvars, kvars, config, _llm, _current_thread_id, _sessions, uuid_count,
                       clock, effective_thread_id, attempt, current_message,
                       slept>>

\* lines 304-320: nothing is extracted; the if is skipped and the for loop
\* goes to its next attempt
RoundNoResponse(reply) ==
    /\ InRound
    /\ _extract_response(output_messages(reply)) = None
    /\ Invoked(reply, "nothing", <<>>)
    /\ attempt' = attempt + 1
    /\ UNCHANGED <<cvars, wvars, svars, tvars, kvars, config, _llm, _current_thread_id, _sessions, _failed_tools,
                   error_log, messages, uuid_count, clock, pc,
                   effective_thread_id, last_response, current_message, slept,
                   outcome>>

\* an error retry that does not count as an attempt
RoundErrorRetry_uncounted(error_str) ==
    /\ InRound
    /\ is_transient_error(classify_error(error_str))
    /\ attempt < max_retries - 1
    /\ Len(rounds) <= max_retries
    /\ rounds' = Append(rounds, [kind |-> "error", text |-> error_str, failures |-> 0,
                                 input |-> engine_input,
                                 thread_id |-> configurable,
                                 current |-> _current_thread_id])
    /\ slept' = Append(slept, RETRY_DELAY * (attempt + 1))
    /\ clock' = clock + RETRY_DELAY * (attempt + 1)
    /\ UNCHANGED <<cvars, wvars, svars, tvars, kvars, config, _llm, _checkpointer, _current_thread_id,
                   _sessions, _failed_tools, error_log, messages, uuid_count, pc,
                   effective_thread_id, attempt, last_response, current_message,
                   outcome, steps>>

\* an error retry that waits RETRY_DELAY whatever the attempt
RoundErrorRetry_flat(error_str) ==
    /\ InRound
    /\ is_transient_error(classify_error(error_str))
    /\ attempt < max_retries - 1
    /\ UNCHANGED steps
    /\ rounds' = Append(rounds, [kind |-> "error", text |-> error_str, failures |-> 0,
                                 input |-> engine_input,
                                 thread_id |-> configurable,
                                 current |-> _current_thread_id])
    /\ slept' = Append(slept, RETRY_DELAY)
    /\ clock' = clock + RETRY_DELAY
    /\ attempt' = attempt + 1
    /\ UNCHANGED <<cvars, wvars, svars, tvars, kvars, config, _llm, _checkpointer, _current_thread_id,
                   _sessions, _failed_tools, error_log, messages, uuid_count, pc,
                   effective_thread_id, last_response, current_message, outcome>>

\* lines 354-364: agent.invoke raised a transient error and attempts remain
RoundErrorRetry(error_str) ==
    /\ InRound
    /\ is_transient_error(classify_error(error_str))
    /\ attempt < max_retries - 1
    /\ UNCHANGED steps
    /\ rounds' = Append(rounds, [kind |-> "error", text |-> error_str, failures |-> 0,
                                 input |-> engine_input,
                                 thread_id |-> configurable,
                                 current |-> _current_thread_id])
    /\ slept' = Append(slept, RETRY_DELAY * (attempt + 1))
    /\ clock' = clock + RETRY_DELAY * (attempt + 1)
    /\ attempt' = attempt + 1
    /\ UNCHANGED <<cvars, wvars, svars, tvars, kvars, config, _llm, _checkpointer, _current_thread_id, _sessions,
                   _failed_tools, error_log, messages, uuid_count, pc,
                   effective_thread_id, last_response, current_message, outcome>>

\* an error that is not retried and is raised again to the caller
RoundErrorReturn_reraise(error_str) ==
    /\ InRound
    /\ ~(is_transient_error(classify_error(error_str)) /\ attempt < max_retries - 1)
    /\ UNCHANGED steps
    /\ rounds' = Append(rounds, [kind |-> "error", text |-> error_str, failures |-> 0,
                                 input |-> engine_input,
                                 thread_id |-> configurable,
                                 current |-> _current_thread_id])
    /\ outcome' = Raised(error_str)
    /\ pc' = "done"
    /\ UNCHANGED <<cvars, wvars, svars, tvars, kvars, config, _llm, _checkpointer, _current_thread_id,
                   _sessions, _failed_tools, error_log, messages, uuid_count, clock,
                   effective_thread_id, attempt, last_response, current_message,
                   slept>>

\* lines 354-367: agent.invoke raised an error that is not retried
RoundErrorReturn(error_str) ==
    /\ InRound
    /\ ~(is_transient_error(classify_error(error_str)) /\ attempt < max_retries - 1)
    /\ UNCHANGED steps
    /\ rounds' = Append(rounds, [kind |-> "error", text |-> error_str, failures |-> 0,
                                 input |-> engine_input,
                                 thread_id |-> configurable,
                                 current |-> _current_thread_id])
    /\ outcome' = Returned(_format_error_response(error_str))
    /\ pc' = "done"
    /\ UNCHANGED <<cvars, wvars, svars, tvars, kvars, config, _llm, _checkpointer, _current_thread_id, _sessions,
                   _failed_tools, error_log, messages, uuid_count, clock,
                   effective_thread_id, attempt, last_response, current_message,
                   slept>>

\* line 369: the for loop ran out
LoopEnd ==
    /\ pc = "loop"
    /\ ~(attempt < max_retries)
    /\ \E failed_list \in Lists(_failed_tools) :
          outcome' = Returned(_format_degraded_response(last_response, failed_list))
    /\ pc' = "done"
    /\ UNCHANGED <<cvars, wvars, svars, tvars, kvars, config, _llm, _checkpointer, _current_thread_id, _sessions,
                   _failed_tools, error_log, messages, uuid_count, clock,
                   effective_thread_id, attempt, last_response, current_message,
                   rounds, slept, steps>>

\* another method is called while no query runs, or by another thread while
\* one does
CanCallApi ==
    /\ pc \in {"idle", "loop", "done"}
    /\ steps + 1 <= MaxSteps

\* a reset_failed_tools that leaves the error log as it is
reset_failed_tools_keeps_log ==
    /\ CanCallApi
    /\ _failed_tools # {} \/ error_log # <<>>
    /\ _failed_tools' = {}
    /\ steps' = steps + 1
    /\ UNCHANGED <<cvars, wvars, svars, tvars, kvars, config, _llm, _checkpointer, _current_thread_id, _sessions,
                   error_log, messages, uuid_count, clock, frame>>

\* reset_failed_tools (lines 509-512); a call that finds nothing to clear
\* changes nothing and is a stuttering step
reset_failed_tools ==
    /\ CanCallApi
    /\ _failed_tools # {} \/ error_log # <<>>
    /\ _failed_tools' = {}
    /\ error_log' = <<>>
    /\ steps' = steps + 1
    /\ UNCHANGED <<cvars, wvars, svars, tvars, kvars, config, _llm, _checkpointer, _current_thread_id, _sessions,
                   messages, uuid_count, clock, frame>>

\* a clear_memory that forgets the failed tools as well
clear_memory_and_failures ==
    /\ CanCallApi
    /\ messages # <<>>
    /\ messages' = <<>>
    /\ _failed_tools' = {}
    /\ steps' = steps + 1
    /\ UNCHANGED <<cvars, wvars, svars, tvars, kvars, config, _llm, _checkpointer, _current_thread_id, _sessions,
                   error_log, uuid_count, clock, frame>>

\* clear_memory (lines 530-536); a call that finds no message changes nothing
\* and is a stuttering step
clear_memory ==
    /\ CanCallApi
    /\ messages # <<>>
    /\ messages' = <<>>
    /\ steps' = steps + 1
    /\ UNCHANGED <<cvars, wvars, svars, tvars, kvars, config, _llm, _checkpointer, _current_thread_id, _sessions,
                   _failed_tools, error_log, uuid_count, clock, frame>>

\* a new_session that starts over with an empty session table
new_session_forgets ==
    /\ CanCallApi
    /\ uuid_count' = uuid_count + 1
    /\ _current_thread_id' = Uuid(uuid_count + 1)
    /\ _sessions' = <<>>
    /\ messages' = <<>>
    /\ steps' = steps + 1
    /\ UNCHANGED <<cvars, wvars, svars, tvars, kvars, config, _llm, _checkpointer, _failed_tools,
                   error_log, clock, frame>>

\* new_session (lines 538-549); uuid.uuid4() is taken to return an id it has
\* not returned before, the k-th call returning Uuid(k)
new_session ==
    /\ CanCallApi
    /\ uuid_count' = uuid_count + 1
    /\ _current_thread_id' = Uuid(uuid_count + 1)
    /\ messages' = <<>>
    /\ steps' = steps + 1
    /\ UNCHANGED <<cvars, wvars, svars, tvars, kvars, config, _llm, _checkpointer, _sessions, _failed_tools,
                   error_log, clock, frame>>

\* set_thread_id (lines 559-565); a call with the current id changes nothing
\* and is a stuttering step
set_thread_id(thread_id) ==
    /\ CanCallApi
    /\ thread_id # _current_thread_id
    /\ _current_thread_id' = thread_id
    /\ steps' = steps + 1
    /\ UNCHANGED <<cvars, wvars, svars, tvars, kvars, config, _llm, _checkpointer, _sessions, _failed_tools,
                   error_log, messages, uuid_count, clock, frame>>

\* get_session_info (lines 567-577): the record, or None
get_session_info(thread_id) ==
    LET tid == or_else(thread_id, _current_thread_id)
    IN  IF tid \in DOMAIN _sessions THEN Some(_sessions[tid]) ELSE None

\* the thread_id a caller passes to query or get_session_info: none, the
\* empty string, an id of its own or an id the agent issued
ThreadIdArguments ==
    {None, Some(<<>>)} \cup { Some(t) : t \in CallerIds \cup IssuedIds }

Next ==
    \/ QueryRaisesNoKey
    \/ \E question \in Questions, thread_id \in ThreadIdArguments :
             QueryStart(question, thread_id)
    \/ \E reply \in Replies : RoundComplete(reply)
    \/ \E reply \in Replies : RoundIncompleteRetry(reply)
    \/ \E reply \in Replies : RoundIncompleteReturn(reply)
    \/ \E reply \in Replies : RoundNoResponse(reply)
    \/ \E error_str \in EngineErrors : RoundErrorRetry(error_str)
    \/ \E error_str \in EngineErrors : RoundErrorReturn(error_str)
    \/ LoopEnd
    \/ reset_failed_tools
    \/ clear_memory
    \/ new_session
    \/ \E thread_id \in CallerIds \cup IssuedIds : set_thread_id(thread_id)

(***************************************************************************)
(* SpecTrack: the failure tracking of a KosmoAgent, called directly        *)
(***************************************************************************)
\* the names _handle_tool_failure is called with: the four tools and a name
\* that is none of them
ToolNames == {web_search, search_wikipedia, execute_code, create_plot, <<"s","e","a","r","c","h">>}

\* the error messages it is called with
FailureMessages == { <<"R","a","t","e"," ","l","i","m","i","t"," ","e","x","c","e","e","d","e","d">>, <<"b","o","o","m">> }

\* a KosmoAgent built with the defaults but for graceful_degradation
InitTrack ==
    /\ verbose = TRUE
    /\ max_retries = MAX_RETRIES
    /\ enable_memory = TRUE
    /\ graceful_degradation \in BOOLEAN
    /\ _llm = FALSE
    /\ _checkpointer = <<>>
    /\ uuid_count = 1
    /\ _current_thread_id = Uuid(1)
    /\ _sessions = <<>>
    /\ _failed_tools = {}
    /\ error_log = <<>>
    /\ messages = <<>>
    /\ clock = 0
    /\ pc = "idle"
    /\ effective_thread_id = Uuid(1)
    /\ attempt = 0
    /\ last_response = <<>>
    /\ current_message = <<>>
    /\ rounds = <<>>
    /\ slept = <<>>
    /\ outcome = NoOutcome
    /\ steps = 0
    /\ c_pc = "off"
    /\ error_message = <<>>
    /\ category = "none"
    /\ is_transient = FALSE
    /\ w_pc = "off"
    /\ w_max_retries = 0
    /\ tool_func = <<>>
    /\ w_attempt = 0
    /\ w_result = None
    /\ w_last_error = None
    /\ w_returned = None
    /\ w_calls = 0
    /\ w_slept = <<>>
    /\ listed = None
    /\ got_failed = None
    /\ t_pc = <<>>
    /\ t_record = <<>>
    /\ t_count = <<>>
    /\ t_bound = 0
    /\ t_made = 0
    /\ t_before = 0
    /\ k_pc = "off"
    /\ k_response = <<>>
    /\ k_is_complete = FALSE
    /\ k_retry_reason = "None"

\* a call of _handle_tool_failure(tool_name, error_message) (lines 490-499)
HandleToolFailure(tool_name, error_message_) ==
    LET tracked == _handle_tool_failure([failed |-> _failed_tools, log |-> error_log],
                                        tool_name, error_message_)
    IN  /\ CanCallApi
        /\ _failed_tools' = tracked.failed
        /\ error_log' = tracked.log
        /\ steps' = steps + 1
        /\ UNCHANGED <<cvars, wvars, svars, tvars, kvars, config, _llm, _checkpointer, _current_thread_id,
                       _sessions, messages, uuid_count, clock, frame>>

NextTrack ==
    \/ \E tool_name \in ToolNames, error_message_ \in FailureMessages :
          HandleToolFailure(tool_name, error_message_)
    \/ reset_failed_tools

(***************************************************************************)
(* SpecSnapshot: a caller keeps what list_sessions and get_failed_tools     *)
(* returned and changes it                                                 *)
(***************************************************************************)
\* A value the caller holds is either an object of its own (shared FALSE,
\* with its content) or the very object the agent holds (shared TRUE): what
\* the caller does to a shared object it does to the agent's.
Own(content) == [shared |-> FALSE, content |-> content]
Shared == [shared |-> TRUE, content |-> <<>>]

\* dict(sessions): a new dict whose values are the agent's own info dicts
dict_copy(sessions) == [id \in DOMAIN sessions |-> Shared]

\* copy.deepcopy(sessions) (line 585): a new dict of new info dicts
deepcopy(sessions) == [id \in DOMAIN sessions |-> Own(sessions[id])]

\* set.copy() (line 507): a new set of the same names
set_copy(names) == Own(names)

\* a verbose KosmoAgent with graceful degradation, one attempt and no memory
InitSnapshot ==
    /\ verbose = TRUE
    /\ max_retries = 1
    /\ enable_memory = FALSE
    /\ graceful_degradation = TRUE
    /\ _llm = FALSE
    /\ _checkpointer = <<>>
    /\ uuid_count = 1
    /\ _current_thread_id = Uuid(1)
    /\ _sessions = <<>>
    /\ _failed_tools = {}
    /\ error_log = <<>>
    /\ messages = <<>>
    /\ clock = 0
    /\ pc = "idle"
    /\ effective_thread_id = Uuid(1)
    /\ attempt = 0
    /\ last_response = <<>>
    /\ current_message = <<>>
    /\ rounds = <<>>
    /\ slept = <<>>
    /\ outcome = NoOutcome
    /\ steps = 0
    /\ c_pc = "off"
    /\ error_message = <<>>
    /\ category = "none"
    /\ is_transient = FALSE
    /\ w_pc = "off"
    /\ w_max_retries = 0
    /\ tool_func = <<>>
    /\ w_attempt = 0
    /\ w_result = None
    /\ w_last_error = None
    /\ w_returned = None
    /\ w_calls = 0
    /\ w_slept = <<>>
    /\ listed = None
    /\ got_failed = None
    /\ t_pc = <<>>
    /\ t_record = <<>>
    /\ t_count = <<>>
    /\ t_bound = 0
    /\ t_made = 0
    /\ t_before = 0
    /\ k_pc = "off"
    /\ k_response = <<>>
    /\ k_is_complete = FALSE
    /\ k_retry_reason = "None"

\* list_sessions (lines 579-585): the caller keeps the dict it returns
list_sessions ==
    /\ pc \in {"idle", "done"}
    /\ listed' = Some(deepcopy(_sessions))
    /\ UNCHANGED <<cvars, wvars, avars, tvars, kvars, got_failed>>

\* get_failed_tools (lines 501-507): the caller keeps the set it returns
get_failed_tools ==
    /\ pc \in {"idle", "done"}
    /\ got_failed' = Some(set_copy(_failed_tools))
    /\ UNCHANGED <<cvars, wvars, avars, tvars, kvars, listed>>

\* info["modified"] = True
with_modified(info) ==
    [k \in DOMAIN info \cup {"modified"} |-> IF k = "modified" THEN TRUE ELSE info[k]]

\* the caller's sessions[thread_id]["modified"] = True on the dict it keeps
SetKeyInListed(thread_id) ==
    /\ pc \in {"idle", "done"}
    /\ listed # None
    /\ thread_id \in DOMAIN listed[1]
    /\ IF listed[1][thread_id].shared
       THEN /\ _sessions' = [_sessions EXCEPT ![thread_id] = with_modified(@)]
            /\ UNCHANGED listed
       ELSE /\ listed' = Some([listed[1] EXCEPT ![thread_id].content = with_modified(@)])
            /\ UNCHANGED _sessions
    /\ UNCHANGED <<cvars, wvars, tvars, kvars, config, _llm, _checkpointer, _current_thread_id,
                   _failed_tools, error_log, messages, uuid_count, clock, frame, steps,
                   got_failed>>

\* the caller's failed.add(tool_name) on the set it keeps
AddToGotFailed(tool_name) ==
    /\ pc \in {"idle", "done"}
    /\ got_failed # None
    /\ IF got_failed[1].shared
       THEN /\ _failed_tools' = _failed_tools \cup {tool_name}
            /\ UNCHANGED got_failed
       ELSE /\ got_failed' = Some(Own(got_failed[1].content \cup {tool_name}))
            /\ UNCHANGED _failed_tools
    /\ UNCHANGED <<cvars, wvars, tvars, kvars, config, _llm, _checkpointer, _current_thread_id,
                   _sessions, error_log, messages, uuid_count, clock, frame, steps,
                   listed>>

\* the names the caller adds to the set it keeps
CallerNames == {create_plot, <<"s","e","a","r","c","h">>}

\* the queries of an agent with one attempt, and the caller between them
NextSnapshot ==
    \/ \E question \in Questions, thread_id \in ThreadIdArguments :
          QueryStart(question, thread_id)
    \/ \E reply \in Replies : RoundComplete(reply)
    \/ \E reply \in Replies : RoundIncompleteReturn(reply)
    \/ \E reply \in Replies : RoundNoResponse(reply)
    \/ \E error_str \in EngineErrors : RoundErrorReturn(error_str)
    \/ LoopEnd
    \/ list_sessions
    \/ get_failed_tools
    \/ \E thread_id \in CallerIds \cup IssuedIds : SetKeyInListed(thread_id)
    \/ \E tool_name \in CallerNames : AddToGotFailed(tool_name)

(***************************************************************************)
(* SpecComplete: _check_response_complete applied to a bounded response    *)
(***************************************************************************)
\* the pieces the responses are built from: the placeholder, the failure
\* phrases in several cases, halves of a phrase, and text that is neither
ResponseFragments ==
    { NoResponse, <<"n","o"," ","r","e","s","p","o","n","s","e"," ","g","e","n","e","r","a","t","e","d",".">>, <<"I"," ","w","a","s"," ","u","n","a","b","l","e"," ","t","o">>,
      <<"i"," ","c","o","u","l","d","n","'","t"," ","c","o","m","p","l","e","t","e">>, <<"T","H","E"," ","T","O","O","L"," ","F","A","I","L","E","D">>, <<"A","n"," ","E","r","r","o","r"," ","O","c","c","u","r","r","e","d">>,
      <<"I"," ","a","p","o","l","o","g","i","z","e",","," ","b","u","t"," ","I"," ","c","a","n","n","o","t">>, <<"t","h","e"," ","t","o","o","l">>, <<" ","f","a","i","l","e","d">>,
      <<"T","h","e"," ","a","n","s","w","e","r"," ","i","s"," ","4","2",".">>, <<" ">> }

ResponseFragmentSeqs == UNION { [1..n -> ResponseFragments] : n \in 0..MaxFrags }

Responses == { concat(fs) : fs \in ResponseFragmentSeqs }

\* the state in which _check_response_complete is called with a response;
\* nothing else is in use
InitComplete ==
    /\ k_pc = "start"
    /\ k_response \in Responses
    /\ k_is_complete = FALSE
    /\ k_retry_reason = "None"
    /\ verbose = FALSE
    /\ max_retries = 0
    /\ enable_memory = FALSE
    /\ graceful_degradation = FALSE
    /\ _llm = FALSE
    /\ _checkpointer = <<>>
    /\ uuid_count = 1
    /\ _current_thread_id = Uuid(1)
    /\ _sessions = <<>>
    /\ _failed_tools = {}
    /\ error_log = <<>>
    /\ messages = <<>>
    /\ clock = 0
    /\ pc = "off"
    /\ effective_thread_id = Uuid(1)
    /\ attempt = 0
    /\ last_response = <<>>
    /\ current_message = <<>>
    /\ rounds = <<>>
    /\ slept = <<>>
    /\ outcome = NoOutcome
    /\ steps = 0
    /\ c_pc = "off"
    /\ error_message = <<>>
    /\ category = "none"
    /\ is_transient = FALSE
    /\ w_pc = "off"
    /\ w_max_retries = 0
    /\ tool_func = <<>>
    /\ w_attempt = 0
    /\ w_result = None
    /\ w_last_error = None
    /\ w_returned = None
    /\ w_calls = 0
    /\ w_slept = <<>>
    /\ listed = None
    /\ got_failed = None
    /\ t_pc = <<>>
    /\ t_record = <<>>
    /\ t_count = <<>>
    /\ t_bound = 0
    /\ t_made = 0
    /\ t_before = 0

\* the call of _check_response_complete(response) (lines 233-259)
CheckResponseComplete ==
    /\ k_pc = "start"
    /\ k_is_complete' = _check_response_complete(k_response).is_complete
    /\ k_retry_reason' = _check_response_complete(k_response).retry_reason
    /\ k_pc' = "done"
    /\ UNCHANGED <<k_response, cvars, wvars, avars, svars, tvars>>

NextComplete == CheckResponseComplete

(***************************************************************************)
(* SpecConcurrent: threads call query on one agent with one thread id      *)
(***************************************************************************)
\* query takes no lock, so the statements of lines 289-299 of one thread
\* interleave with those of another. A session info dict is an object: the
\* k-th one the threads make is object k, the one there was before them is
\* object 0. A store into an object _sessions no longer holds is not seen
\* by anyone.
Threads == 1..NThreads

\* the thread id all the threads pass
SharedId == <<"caller", 1>>

\* the agent after zero or one query on SharedId
InitConcurrent ==
    /\ t_pc = [t \in Threads |-> "check"]
    /\ t_record = [t \in Threads |-> 0]
    /\ t_count = [t \in Threads |-> 0]
    /\ t_bound = 0
    /\ t_made = 0
    /\ \/ /\ _sessions = <<>>
          /\ t_before = 0
          /\ clock = 0
       \/ /\ _sessions = track_session(<<>>, SharedId, 0)
          /\ t_before = 1
          /\ clock = 1
    /\ verbose = FALSE
    /\ max_retries = MAX_RETRIES
    /\ enable_memory = TRUE
    /\ graceful_degradation = TRUE
    /\ _llm = TRUE
    /\ _checkpointer = <<>>
    /\ uuid_count = 1
    /\ _current_thread_id = Uuid(1)
    /\ _failed_tools = {}
    /\ error_log = <<>>
    /\ messages = <<>>
    /\ pc = "off"
    /\ effective_thread_id = Uuid(1)
    /\ attempt = 0
    /\ last_response = <<>>
    /\ current_message = <<>>
    /\ rounds = <<>>
    /\ slept = <<>>
    /\ outcome = NoOutcome
    /\ steps = 0
    /\ c_pc = "off"
    /\ error_message = <<>>
    /\ category = "none"
    /\ is_transient = FALSE
    /\ w_pc = "off"
    /\ w_max_retries = 0
    /\ tool_func = <<>>
    /\ w_attempt = 0
    /\ w_result = None
    /\ w_last_error = None
    /\ w_returned = None
    /\ w_calls = 0
    /\ w_slept = <<>>
    /\ listed = None
    /\ got_failed = None
    /\ k_pc = "off"
    /\ k_response = <<>>
    /\ k_is_complete = FALSE
    /\ k_retry_reason = "None"

\* what no statement of lines 289-296 changes
TrackingFrame ==
    UNCHANGED <<cvars, wvars, svars, kvars, config, _llm, _checkpointer,
                _current_thread_id, _failed_tools, error_log, uuid_count, frame,
                steps, t_before>>

\* line 290: if effective_thread_id not in self._sessions
CheckSession(t) ==
    /\ t_pc[t] = "check"
    /\ t_pc' = [t_pc EXCEPT ![t] = IF SharedId \in DOMAIN _sessions
                                    THEN "load" ELSE "create"]
    /\ TrackingFrame
    /\ UNCHANGED <<_sessions, messages, clock, t_record, t_count, t_bound, t_made>>

\* lines 291-294: a new session info is bound to the id, whatever is bound
\* to it by now
CreateSession(t) ==
    /\ t_pc[t] = "create"
    /\ _sessions' = Put(_sessions, SharedId,
                        [created_at |-> clock, query_count |-> 0])
    /\ t_made' = t_made + 1
    /\ t_bound' = t_made + 1
    /\ clock' = clock + 1
    /\ t_pc' = [t_pc EXCEPT ![t] = "load"]
    /\ TrackingFrame
    /\ UNCHANGED <<messages, t_record, t_count>>

\* line 295, first half: the session info and its query_count are read
LoadCount(t) ==
    /\ t_pc[t] = "load"
    /\ t_record' = [t_record EXCEPT ![t] = t_bound]
    /\ t_count' = [t_count EXCEPT ![t] = _sessions[SharedId].query_count]
    /\ t_pc' = [t_pc EXCEPT ![t] = "store"]
    /\ TrackingFrame
    /\ UNCHANGED <<_sessions, messages, clock, t_bound, t_made>>

\* line 295, second half: the count read, plus one, is stored in the session
\* info that was read
StoreCount(t) ==
    /\ t_pc[t] = "store"
    /\ _sessions' = IF t_record[t] = t_bound
                    THEN [_sessions EXCEPT ![SharedId].query_count = t_count[t] + 1]
                    ELSE _sessions
    /\ t_pc' = [t_pc EXCEPT ![t] = "stamp"]
    /\ TrackingFrame
    /\ UNCHANGED <<messages, clock, t_record, t_count, t_bound, t_made>>

\* line 296: last_query_at of the session info bound to the id is set
StampSession(t) ==
    /\ t_pc[t] = "stamp"
    /\ _sessions' = Put(_sessions, SharedId,
                        Put(_sessions[SharedId], "last_query_at", clock))
    /\ clock' = clock + 1
    /\ t_pc' = [t_pc EXCEPT ![t] = "append"]
    /\ TrackingFrame
    /\ UNCHANGED <<messages, t_record, t_count, t_bound, t_made>>

\* line 299: the question is appended to the messages; the rounds that follow
\* do not touch the sessions
AppendQuestion(t) ==
    /\ t_pc[t] = "append"
    /\ messages' = Append(messages, UserDict(<<"W","h","a","t"," ","i","s"," ","6"," ","x"," ","7","?">>))
    /\ t_pc' = [t_pc EXCEPT ![t] = "tracked"]
    /\ TrackingFrame
    /\ UNCHANGED <<_sessions, clock, t_record, t_count, t_bound, t_made>>

NextConcurrent ==
    \/ \E t \in Threads : CheckSession(t)
    \/ \E t \in Threads : CreateSession(t)
    \/ \E t \in Threads : LoadCount(t)
    \/ \E t \in Threads : StoreCount(t)
    \/ \E t \in Threads : StampSession(t)
    \/ \E t \in Threads : AppendQuestion(t)

vars == <<cvars, wvars, avars, svars, tvars, kvars>>

SpecClassify == InitClassify /\ [][NextClassify]_vars
SpecWrap == InitWrap /\ [][NextWrap]_vars
Spec == Init /\ [][Next]_vars
SpecTrack == InitTrack /\ [][NextTrack]_vars
SpecSnapshot == InitSnapshot /\ [][NextSnapshot]_vars
SpecComplete == InitComplete /\ [][NextComplete]_vars
SpecConcurrent == InitConcurrent /\ [][NextConcurrent]_vars


(***************************************************************************)
(* Vocabulary of the properties                                            *)
(***************************************************************************)
\* two characters that are the same letter, in whatever case
\* each letter's small form, whatever its case
FoldOf ==
    [c \in { UpperChars[i] : i \in 1..26 } \cup { LowerChars[i] : i \in 1..26 } |->
        LowerChars[CHOOSE i \in 1..26 : c \in {UpperChars[i], LowerChars[i]}]]

\* s with each letter replaced by its small form
Folded(s) ==
    SubSeq([i \in 1..Len(s) |-> IF s[i] \in DOMAIN FoldOf THEN FoldOf[s[i]] ELSE s[i]],
           1, Len(s))

\* p occurs in s exactly as written
Occurs(p, s) ==
    \E i \in 1..(Len(s) - Len(p) + 1) : SubSeq(s, i, i + Len(p) - 1) = p

\* p occurs in s, the case of the letters ignored
OccursCI(p, s) == Occurs(Folded(p), Folded(s))

\* the patterns ERROR_PATTERNS lists for category c
PatternsOf(c) ==
    UNION { { ERROR_PATTERNS[i].patterns[k] :
                k \in 1..Len(ERROR_PATTERNS[i].patterns) } :
            i \in { i \in 1..Len(ERROR_PATTERNS) : ERROR_PATTERNS[i].category = c } }

\* the same, folded, for every category
FoldedPatterns ==
    [c \in ErrorCategory |-> { Folded(p) : p \in PatternsOf(c) }]

\* message m holds a pattern of category c, in any case
Matches(c, m) ==
    LET folded == Folded(m)
    IN  \E p \in FoldedPatterns[c] : Occurs(p, folded)

PriorityOrder ==
    <<"rate_limit", "timeout", "network_error", "authentication",
      "not_found", "execution">>

\* the first category of the order that owns a pattern occurring in m
CategoryOf(m) ==
    IF \E i \in 1..Len(PriorityOrder) : Matches(PriorityOrder[i], m)
    THEN PriorityOrder[CHOOSE i \in 1..Len(PriorityOrder) :
                          /\ Matches(PriorityOrder[i], m)
                          /\ \A j \in 1..(i - 1) : ~Matches(PriorityOrder[j], m)]
    ELSE "unknown"

TransientMessage(m) == CategoryOf(m) \in {"rate_limit", "timeout", "network_error"}

MentionsAuthentication(m) ==
    \/ OccursCI(<<"i","n","v","a","l","i","d"," ","a","p","i"," ","k","e","y">>, m)
    \/ OccursCI(<<"4","0","1">>, m)
    \/ OccursCI(<<"4","0","3">>, m)

(***************************************************************************)
(* Properties of classify_error (SpecClassify)                             *)
(***************************************************************************)
\* C9, as stated: every message containing "invalid api key", "401" or "403",
\* whatever else it contains, is classified authentication, which is not
\* transient.  "403 rate limit" is classified rate_limit.
C9_AuthenticationWhateverElse ==
    (/\ c_pc = "done"
     /\ \/ Occurs(<<"i","n","v","a","l","i","d"," ","a","p","i"," ","k","e","y">>, error_message)
        \/ Occurs(<<"4","0","1">>, error_message)
        \/ Occurs(<<"4","0","3">>, error_message))
    => (category = "authentication" /\ ~is_transient)

\* C9, amended: every message containing "invalid api key" (in any case),
\* "401" or "403" and no pattern of the three categories that come first
\* (rate_limit, timeout, network_error) is classified authentication, and
\* authentication is not transient.
C9_AuthenticationUnlessEarlierCategory ==
    /\ ~is_transient_error("authentication")
    /\ (/\ c_pc = "done"
        /\ MentionsAuthentication(error_message)
        /\ ~Matches("rate_limit", error_message)
        /\ ~Matches("timeout", error_message)
        /\ ~Matches("network_error", error_message))
       => (category = "authentication" /\ ~is_transient)

\* C9 witness: a message with "401" and a not_found pattern beside it was
\* classified authentication
C9_Witness ==
    /\ c_pc = "done"
    /\ Occurs(<<"4","0","1">>, error_message)
    /\ Matches("not_found", error_message)
    /\ category = "authentication"
    /\ ~is_transient

\* C10: classify_error returns the first category of the order rate_limit,
\* timeout, network_error, authentication, not_found, execution that owns a
\* pattern occurring in the message in any case, and unknown when no pattern
\* occurs; a message with "rate limit" in any case is rate_limit and
\* transient; api_error and validation are never returned.
C10_FirstCategoryInOrderWins ==
    c_pc = "done" =>
        /\ category \notin {"api_error", "validation"}
        /\ IF \E i \in 1..Len(PriorityOrder) : Matches(PriorityOrder[i], error_message)
           THEN \E i \in 1..Len(PriorityOrder) :
                    /\ category = PriorityOrder[i]
                    /\ Matches(PriorityOrder[i], error_message)
                    /\ \A j \in 1..(i - 1) : ~Matches(PriorityOrder[j], error_message)
           ELSE category = "unknown"
        /\ OccursCI(<<"r","a","t","e"," ","l","i","m","i","t">>, error_message)
              => (category = "rate_limit" /\ is_transient)
        /\ is_transient <=> category \in {"rate_limit", "timeout", "network_error"}

\* C10 witness: "rate limit" occurs in another case than the pattern's, with
\* an authentication pattern beside it, and the result is rate_limit
C10_Witness ==
    /\ c_pc = "done"
    /\ OccursCI(<<"r","a","t","e"," ","l","i","m","i","t">>, error_message)
    /\ ~Occurs(<<"r","a","t","e"," ","l","i","m","i","t">>, error_message)
    /\ Matches("authentication", error_message)
    /\ category = "rate_limit"
    /\ is_transient

(***************************************************************************)
(* Properties of the tool retry wrapper (SpecWrap)                         *)
(***************************************************************************)
\* a returned text that reads as a failure: empty, or holding an indicator
SoftFailure(text) ==
    \/ text = <<>>
    \/ \E k \in 1..Len(INCOMPLETE_INDICATORS) : OccursCI(INCOMPLETE_INDICATORS[k], text)

\* a returned text that sounds transient
TransientSounding(text) ==
    \/ OccursCI(<<"r","a","t","e"," ","l","i","m","i","t">>, text)
    \/ OccursCI(<<"t","i","m","e","o","u","t">>, text)
    \/ OccursCI(<<"c","o","n","n","e","c","t","i","o","n"," ","e","r","r","o","r">>, text)

Fails(o) == o.raises \/ SoftFailure(o.text)
Succeeds(o) == ~o.raises /\ ~SoftFailure(o.text)
FailsTransiently(o) ==
    IF o.raises THEN TransientMessage(o.text) ELSE TransientSounding(o.text)

C2_NonTransientCalledOnce ==
    (/\ w_pc = "returned"
     /\ w_max_retries >= 1
     /\ \A i \in 1..w_max_retries : tool_func[i] = tool_func[1]
     /\ Fails(tool_func[1])
     /\ ~is_transient_error(classify_error(tool_func[1].text)))
    => (w_calls = 1 /\ Occurs(tool_func[1].text, w_returned[1]))

(***************************************************************************)
(* Properties of KosmoAgent.query (Spec)                                   *)
(***************************************************************************)
Last(seq) == seq[Len(seq)]

QueryCount(sessions, t) ==
    IF t \in DOMAIN sessions THEN sessions[t].query_count ELSE 0

\* the round returned an answer text (agent.invoke neither raised nor gave
\* an output without any text)
Answered(r) == r.kind \notin {"error", "nothing"}

\* the answer is one the completion check lets through: not empty, not the
\* placeholder, holding no failure phrase in any case
JudgedComplete(text) ==
    /\ text # <<>>
    /\ text # NoResponse
    /\ \A k \in 1..Len(failure_phrases) : ~OccursCI(failure_phrases[k], text)

Separator == <<"\n","\n","-","-","-","\n">>

\* value is text, or text followed by the separator and a notice
Decorated(value, text) ==
    \/ value = text
    \/ /\ Len(value) > Len(text) + Len(Separator)
       /\ SubSeq(value, 1, Len(text) + Len(Separator)) = text \o Separator

ErrorOpening == <<"I"," ","e","n","c","o","u","n","t","e","r","e","d"," ","a","n"," ","e","r","r","o","r"," ","w","h","i","l","e"," ","p","r","o","c","e","s","s","i","n","g"," ","y","o","u","r"," ","r","e","q","u","e","s","t",":"," ">>

IsErrorMessage(value) ==
    /\ Len(value) >= Len(ErrorOpening)
    /\ SubSeq(value, 1, Len(ErrorOpening)) = ErrorOpening

\* what the error message advises for the category of error m
Advice(m) ==
    LET c == CategoryOf(m)
    IN  IF c = "authentication" THEN <<"c","h","e","c","k"," ","t","h","a","t"," ","y","o","u","r"," ","A","P","I"," ","k","e","y","s">>
        ELSE IF c = "network_error" THEN <<"c","h","e","c","k"," ","y","o","u","r"," ","i","n","t","e","r","n","e","t"," ","c","o","n","n","e","c","t","i","o","n">>
        ELSE IF c = "rate_limit" THEN <<"P","l","e","a","s","e"," ","w","a","i","t"," ","a"," ","m","o","m","e","n","t">>
        ELSE <<"t","r","y"," ","r","e","p","h","r","a","s","i","n","g"," ","y","o","u","r"," ","q","u","e","s","t","i","o","n">>

AllAdvice ==
    { <<"c","h","e","c","k"," ","t","h","a","t"," ","y","o","u","r"," ","A","P","I"," ","k","e","y","s">>, <<"c","h","e","c","k"," ","y","o","u","r"," ","i","n","t","e","r","n","e","t"," ","c","o","n","n","e","c","t","i","o","n">>,
      <<"P","l","e","a","s","e"," ","w","a","i","t"," ","a"," ","m","o","m","e","n","t">>, <<"t","r","y"," ","r","e","p","h","r","a","s","i","n","g"," ","y","o","u","r"," ","q","u","e","s","t","i","o","n">> }

\* value is the message for error m: the opening, m, and the advice of m's
\* category and of no other
ErrorMessageFor(value, m) ==
    /\ Len(value) >= Len(ErrorOpening) + Len(m)
    /\ SubSeq(value, 1, Len(ErrorOpening) + Len(m)) = ErrorOpening \o m
    /\ LET rest == SubSeq(value, Len(ErrorOpening) + Len(m) + 1, Len(value))
           advice == Advice(m)
       IN  \A a \in AllAdvice : Occurs(a, rest) <=> a = advice

\* C3: a query that starts (the step from idle or done into the loop) adds
\* exactly 1 to the query_count of the session it resolves to, and leaves the
\* sessions' other counts and the set of sessions otherwise as they were;
\* no round and no ending of the query, whatever it is, changes any count.
C3_CountedOncePerQuery ==
    [][ LET starts == pc \in {"idle", "done"} /\ pc' = "loop"
            ends_or_rounds == pc = "loop"
        IN  /\ starts =>
                /\ QueryCount(_sessions', effective_thread_id')
                      = QueryCount(_sessions, effective_thread_id') + 1
                /\ DOMAIN _sessions' = DOMAIN _sessions \cup {effective_thread_id'}
                /\ \A t \in DOMAIN _sessions' \ {effective_thread_id'} :
                      QueryCount(_sessions', t) = QueryCount(_sessions, t)
            /\ ends_or_rounds =>
                \A t \in DOMAIN _sessions \cup DOMAIN _sessions' :
                    QueryCount(_sessions', t) = QueryCount(_sessions, t)
            /\ (pc \in {"idle", "done"} /\ outcome'.kind = "raised") =>
                \A t \in DOMAIN _sessions \cup DOMAIN _sessions' :
                    QueryCount(_sessions', t) = QueryCount(_sessions, t)
      ]_vars

\* C3 witness: a query of a session the caller named has ended after three
\* rounds, the last an error, and the session's count is 1 while the current
\* session has none
C3_Witness ==
    /\ pc = "done"
    /\ Len(rounds) = 3
    /\ Last(rounds).kind = "error"
    /\ outcome.kind = "returned"
    /\ effective_thread_id # _current_thread_id
    /\ QueryCount(_sessions, effective_thread_id) = 1
    /\ QueryCount(_sessions, _current_thread_id) = 0

\* C3 witness of a second query: after two queries of one session, the
\* count is 2
C3_WitnessSecondQuery ==
    /\ pc = "done"
    /\ rounds # <<>>
    /\ QueryCount(_sessions, effective_thread_id) = 2

\* C4: in every query the engine has been invoked at most max_retries times,
\* attempt counting the invocations; every step of a running query either
\* ends it or is one more invocation and one more attempt, whichever kind
\* of round it is, and once attempt reaches max_retries the query ends
\* without another invocation.
C4_AttemptBudget ==
    /\ [](/\ Len(rounds) <= max_retries
          /\ attempt <= max_retries
          /\ pc = "loop" => Len(rounds) = attempt)
    /\ [][ (pc = "loop" /\ <<pc, attempt, rounds>>' # <<pc, attempt, rounds>>) =>
              \/ /\ pc' = "done"
                 /\ Len(rounds') \in {Len(rounds), Len(rounds) + 1}
                 /\ Len(rounds') = Len(rounds) => attempt = max_retries
              \/ /\ pc' = "loop"
                 /\ attempt' = attempt + 1
                 /\ Len(rounds') = Len(rounds) + 1
         ]_vars

\* C4 witness: max_retries = 3 and the query ended after an output without
\* text, a transient error and an incomplete answer
C4_Witness ==
    /\ pc = "done"
    /\ max_retries = 3
    /\ Len(rounds) = 3
    /\ rounds[1].kind = "nothing"
    /\ rounds[2].kind = "error"
    /\ Answered(rounds[3]) /\ ~JudgedComplete(rounds[3].text)

\* C5: a round whose answer is judged complete is the query's last: the
\* query is over, no round follows it, there were at most max_retries rounds,
\* and what query returned is that round's answer, or that answer followed by
\* the separator and a notice; it is the answer itself when no tool is failed
\* as the query returns.
C5_CompleteRoundReturned ==
    /\ [](\A k \in 1..Len(rounds) :
            (Answered(rounds[k]) /\ JudgedComplete(rounds[k].text)) =>
                /\ k = Len(rounds)
                /\ k <= max_retries
                /\ pc = "done"
                /\ outcome.kind = "returned"
                /\ Decorated(outcome.value, rounds[k].text))
    /\ [][ (/\ pc = "loop" /\ pc' = "done"
            /\ Len(rounds') = Len(rounds) + 1
            /\ Answered(Last(rounds'))
            /\ JudgedComplete(Last(rounds').text)
            /\ _failed_tools' = {})
           => outcome'.value = Last(rounds').text ]_vars

\* C5 witness: round 1 was judged incomplete, round 2 complete, and query
\* returned round 2's answer after two invocations
C5_Witness ==
    /\ pc = "done"
    /\ max_retries = 3
    /\ Len(rounds) = 2
    /\ Answered(rounds[1]) /\ ~JudgedComplete(rounds[1].text)
    /\ Answered(rounds[2]) /\ JudgedComplete(rounds[2].text)
    /\ outcome = Returned(rounds[2].text)

\* C6: when a query is over and every one of its rounds returned an answer
\* judged incomplete, there were exactly max_retries rounds and query
\* returned the last round's answer, as it is or followed by the separator
\* and a notice, and not an error message.
C6_LastIncompleteAnswerReturned ==
    (/\ pc = "done"
     /\ rounds # <<>>
     /\ \A k \in 1..Len(rounds) :
           Answered(rounds[k]) /\ ~JudgedComplete(rounds[k].text))
    => /\ Len(rounds) = max_retries
       /\ outcome.kind = "returned"
       /\ Decorated(outcome.value, Last(rounds).text)
       /\ ~IsErrorMessage(outcome.value)

\* C6 witness: two rounds, two different incomplete answers, the second one
\* returned
C6_Witness ==
    /\ pc = "done"
    /\ max_retries = 2
    /\ Len(rounds) = 2
    /\ \A k \in 1..2 : Answered(rounds[k]) /\ ~JudgedComplete(rounds[k].text)
    /\ rounds[1].text # rounds[2].text
    /\ outcome = Returned(rounds[2].text)

\* the waits of a query are one for each round that was followed by another,
\* but for the rounds without text
WaitOf(i) == Cardinality({ j \in 1..i : rounds[j].kind # "nothing" })

\* C7: for every round i of a query in which agent.invoke raised error m:
\* the query went on after it if and only if m is of a transient category
\* and i < max_retries, and then it waited RETRY_DELAY * i first; otherwise
\* the round is the last, the query is over and what it returned is the
\* message for m: the opening, m, and the advice of m's category.
C7_ErrorRetriedIffTransient ==
    \A i \in 1..Len(rounds) :
        rounds[i].kind = "error" =>
            LET m == rounds[i].text
                went_on == i < Len(rounds) \/ pc = "loop"
            IN  /\ went_on <=> (TransientMessage(m) /\ i < max_retries)
                /\ went_on =>
                      /\ WaitOf(i) <= Len(slept)
                      /\ slept[WaitOf(i)] = RETRY_DELAY * i
                /\ ~went_on =>
                      /\ pc = "done"
                      /\ outcome.kind = "returned"
                      /\ ErrorMessageFor(outcome.value, m)

\* C7 witness: max_retries = 3, three transient errors: waits of 1 and 2, and
\* the third error returned as a message
C7_Witness ==
    /\ pc = "done"
    /\ max_retries = 3
    /\ Len(rounds) = 3
    /\ \A i \in 1..3 : rounds[i].kind = "error" /\ TransientMessage(rounds[i].text)
    /\ slept = <<RETRY_DELAY, RETRY_DELAY * 2>>
    /\ outcome.kind = "returned"
    /\ IsErrorMessage(outcome.value)

\* C7 witness of the other side: an authentication error in round 1 of 3
C7_WitnessAuthentication ==
    /\ pc = "done"
    /\ max_retries = 3
    /\ Len(rounds) = 1
    /\ rounds[1].kind = "error"
    /\ CategoryOf(rounds[1].text) = "authentication"
    /\ Occurs(<<"A","P","I"," ","k","e","y","s">>, outcome.value)

\* C8, as stated: query always returns text.  A query of an agent without
\* OPENAI_API_KEY raises ValueError.
C8_QueryAlwaysReturnsText ==
    pc = "done" => outcome.kind = "returned"

\* C8, amended: every error agent.invoke raises during query reaches the
\* caller as the returned message for that error and never as a raised
\* exception, and a query that has invoked the engine returns text; the one
\* exception query raises is the ValueError of a missing OPENAI_API_KEY, raised
\* while the agent is built, before any round.
C8_EngineErrorsReturnedAsText ==
    pc = "done" =>
        /\ outcome.kind \in {"returned", "raised"}
        /\ outcome.kind = "raised" =>
              /\ rounds = <<>>
              /\ ~_llm
              /\ outcome.value = <<"O","P","E","N","A","I","_","A","P","I","_","K","E","Y"," ","n","o","t"," ","f","o","u","n","d"," ","i","n"," ","e","n","v","i","r","o","n","m","e","n","t"," ","v","a","r","i","a","b","l","e","s">>
        /\ rounds # <<>> => outcome.kind = "returned"
        /\ (rounds # <<>> /\ Last(rounds).kind = "error") =>
              ErrorMessageFor(outcome.value, Last(rounds).text)

\* C8 witness: the engine raised an error of unknown category in the only
\* round and query returned the message for it
C8_Witness ==
    /\ pc = "done"
    /\ Len(rounds) = 1
    /\ rounds[1].kind = "error"
    /\ CategoryOf(rounds[1].text) = "unknown"
    /\ outcome.kind = "returned"
    /\ ErrorMessageFor(outcome.value, rounds[1].text)

(***************************************************************************)
(* Properties of the failure tracking (SpecTrack)                          *)
(***************************************************************************)
\* the orders in which the names of s can be listed
RECURSIVE Orderings(_)
Orderings(s) ==
    IF s = {} THEN { <<>> }
    ELSE UNION { { <<x>> \o l : l \in Orderings(s \ {x}) } : x \in s }

\* the record of a failure of tool c with message m
RecordOf(c, m) ==
    [tool |-> c, category |-> CategoryOf(m), message |-> m,
     is_transient |-> TransientMessage(m)]

KnownTools == {web_search, search_wikipedia, execute_code, create_plot}

AllUnavailable ==
    <<"A","l","l"," ","t","o","o","l","s"," ","a","r","e"," ","c","u","r","r","e","n","t","l","y"," ","u","n","a","v","a","i","l","a","b","l","e","."," ","I"," ","c","a","n"," ","o","n","l","y"," ","p","r","o","v","i","d","e"," ","i","n","f","o","r","m","a","t","i","o","n"," ","f","r","o","m"," ","m","y"," ","t","r","a","i","n","i","n","g"," ","d","a","t","a",".">>

\* C11, as stated: with graceful degradation on, a call of
\* _handle_tool_failure(c, m) leaves c in the failed set, appends one record
\* for c with the category of m to the log, and the degradation message of
\* the failed set, in whichever order the set is listed, is not empty and
\* mentions c.  When the call makes all four tools failed the message names
\* no tool.
C11_NoticeMentionsTool ==
    [][ \A c \in ToolNames, m \in FailureMessages :
          (graceful_degradation /\ HandleToolFailure(c, m)) =>
              /\ c \in _failed_tools'
              /\ error_log' = Append(error_log, RecordOf(c, m))
              /\ \A l \in Orderings(_failed_tools') :
                    /\ get_degradation_message(l) # <<>>
                    /\ Occurs(c, get_degradation_message(l))
      ]_vars

\* C11, amended: with graceful degradation on, a call of
\* _handle_tool_failure(c, m) leaves c in the failed set and appends one
\* record for c with the category of m to the log; the degradation message of
\* the failed set is not empty, and it mentions c unless all four tools
\* (web_search, search_wikipedia, execute_code, create_plot) are then failed,
\* when it is the message that all tools are unavailable.
C11_NoticeMentionsToolUnlessAllFailed ==
    [][ \A c \in ToolNames, m \in FailureMessages :
          (graceful_degradation /\ HandleToolFailure(c, m)) =>
              /\ c \in _failed_tools'
              /\ error_log' = Append(error_log, RecordOf(c, m))
              /\ \A l \in Orderings(_failed_tools') :
                    /\ get_degradation_message(l) # <<>>
                    /\ IF KnownTools \subseteq _failed_tools'
                       THEN get_degradation_message(l) = AllUnavailable
                       ELSE Occurs(c, get_degradation_message(l))
      ]_vars

\* C11 witness: _handle_tool_failure("search", "Rate limit exceeded") was
\* the one call: "search" is failed, the log holds its rate_limit record and
\* the message names it
C11_Witness ==
    /\ graceful_degradation
    /\ _sessions = <<>>
    /\ _failed_tools = { <<"s","e","a","r","c","h">> }
    /\ error_log = << RecordOf(<<"s","e","a","r","c","h">>, <<"R","a","t","e"," ","l","i","m","i","t"," ","e","x","c","e","e","d","e","d">>) >>
    /\ Occurs(<<"s","e","a","r","c","h">>, get_degradation_message(<< <<"s","e","a","r","c","h">> >>))

(***************************************************************************)
(* Properties of the agent's other methods (Spec)                          *)
(***************************************************************************)
\* the dict without a key
EmptyDict == <<>>

\* C12: a call of reset_failed_tools leaves no failed tool and an empty error
\* summary, and every session record and the current thread id are after it
\* what they were before it; nothing else of the agent changes either
C12_ResetClearsFailuresOnly ==
    [][reset_failed_tools =>
          /\ _failed_tools' = {}
          /\ get_error_summary(error_log') = EmptyDict
          /\ _sessions' = _sessions
          /\ _current_thread_id' = _current_thread_id
          /\ UNCHANGED <<config, _llm, _checkpointer, messages, uuid_count>>]_vars

\* a query on a verbose agent ended with a round in which a tool failed, and
\* the failure it recorded has been reset away; the session is still there
C12_Witness ==
    /\ pc = "done"
    /\ verbose /\ graceful_degradation
    /\ rounds # <<>> /\ Last(rounds).failures > 0
    /\ _failed_tools = {} /\ error_log = <<>>
    /\ effective_thread_id \in DOMAIN _sessions
    /\ _sessions[effective_thread_id].query_count = 1

\* C13: the id new_session returns (the new current thread id) is none of the
\* ids issued before, the initial one included, nor the id of any session or
\* the id that was current; and every session record is after the call what
\* it was before it
C13_NewSessionIsFresh ==
    [][new_session =>
          /\ _current_thread_id' \notin IssuedIds \cup DOMAIN _sessions
                                     \cup {_current_thread_id}
          /\ _current_thread_id' \in { Uuid(k) : k \in 1..uuid_count' }
          /\ _sessions' = _sessions]_vars

\* one query on the initial session, then new_session: the new id is
\* current and has no record, the record of the first session is there
C13_Witness ==
    /\ max_retries = 1 /\ steps = 3 /\ pc = "done"
    /\ uuid_count = 2
    /\ _current_thread_id = Uuid(2)
    /\ messages = <<>>
    /\ DOMAIN _sessions = {Uuid(1)}
    /\ _sessions[Uuid(1)].query_count = 1

\* every value that is passed as a thread id
GivenIds == { <<>> } \cup CallerIds \cup IssuedIds

\* C14: a query given an id is counted on the session of exactly that id, on
\* its existing record when it has one and on a fresh record with query_count
\* 1 when it has none; a query given no id is counted on the current thread
\* id; no other session record changes, so that the sessions are the ids
\* queries were resolved to, and get_session_info of an id without a
\* session is None
C14_QueryResolvesGivenId ==
    [][\A question \in Questions, thread_id \in ThreadIdArguments :
          QueryStart(question, thread_id) =>
             LET id == IF thread_id = None THEN _current_thread_id ELSE thread_id[1]
             IN  /\ effective_thread_id' = id
                 /\ DOMAIN _sessions' = DOMAIN _sessions \cup {id}
                 /\ _sessions'[id].query_count =
                       IF id \in DOMAIN _sessions
                       THEN _sessions[id].query_count + 1 ELSE 1
                 /\ id \in DOMAIN _sessions =>
                       _sessions'[id].created_at = _sessions[id].created_at
                 /\ \A other \in DOMAIN _sessions \ {id} :
                       _sessions'[other] = _sessions[other]
                 /\ \A given \in GivenIds' :
                       given \notin DOMAIN _sessions' =>
                          get_session_info(Some(given))' = None]_vars

\* the same for every thread_id but the empty string, which query takes for
\* no id at all
C14_QueryResolvesNonEmptyId ==
    [][\A question \in Questions, thread_id \in ThreadIdArguments \ {Some(<<>>)} :
          QueryStart(question, thread_id) =>
             LET id == IF thread_id = None THEN _current_thread_id ELSE thread_id[1]
             IN  /\ effective_thread_id' = id
                 /\ DOMAIN _sessions' = DOMAIN _sessions \cup {id}
                 /\ _sessions'[id].query_count =
                       IF id \in DOMAIN _sessions
                       THEN _sessions[id].query_count + 1 ELSE 1
                 /\ id \in DOMAIN _sessions =>
                       _sessions'[id].created_at = _sessions[id].created_at
                 /\ \A other \in DOMAIN _sessions \ {id} :
                       _sessions'[other] = _sessions[other]
                 /\ \A given \in GivenIds' \ { <<>> } :
                       given \notin DOMAIN _sessions' =>
                          get_session_info(Some(given))' = None]_vars

\* a step of query: its start, one of its rounds, or its end
QueryStep ==
    \/ \E question \in Questions, thread_id \in ThreadIdArguments :
          QueryStart(question, thread_id)
    \/ \E reply \in Replies :
          \/ RoundComplete(reply)
          \/ RoundIncompleteRetry(reply)
          \/ RoundIncompleteReturn(reply)
          \/ RoundNoResponse(reply)
    \/ \E error_str \in EngineErrors :
          \/ RoundErrorRetry(error_str)
          \/ RoundErrorReturn(error_str)
    \/ LoopEnd

\* the agent's messages are the conversation of session b: what the
\* checkpointer holds for b, as the last round of a query on b left them
HoldsConversationOf(b) ==
    /\ b \in DOMAIN _checkpointer
    /\ messages = _checkpointer[b]

\* C15: a step of a query resolved to session a leaves the record of every
\* other session b as it was, and the messages held for b, in the
\* checkpointer and in the agent's messages, are not replaced, cleared or
\* extended by it
C15_SessionsIsolated ==
    [][QueryStep =>
          \A b \in DOMAIN _sessions \ {effective_thread_id'} :
             /\ _sessions'[b] = _sessions[b]
             /\ thread_messages(b)' = thread_messages(b)
             /\ HoldsConversationOf(b) => messages' = messages]_vars

\* the part of it that is about the session records and the checkpointer
C15_RecordsAndThreadsIsolated ==
    [][QueryStep =>
          \A b \in DOMAIN _sessions \ {effective_thread_id'} :
             /\ _sessions'[b] = _sessions[b]
             /\ thread_messages(b)' = thread_messages(b)]_vars

(***************************************************************************)
(* Properties of the values handed to the caller (SpecSnapshot)            *)
(***************************************************************************)
\* the caller changes a value it was handed
CallerChangesSnapshot ==
    \/ \E thread_id \in CallerIds \cup IssuedIds : SetKeyInListed(thread_id)
    \/ \E tool_name \in CallerNames : AddToGotFailed(tool_name)

\* C16: whatever the caller does to the dict list_sessions returned (a key
\* added to the info of a session) or to the set get_failed_tools returned (a
\* name added), the agent's sessions and failed tools stay what they were, and
\* so does what the next list_sessions and get_failed_tools return
C16_SnapshotsAreCopies ==
    [][CallerChangesSnapshot =>
          /\ _sessions' = _sessions
          /\ _failed_tools' = _failed_tools
          /\ deepcopy(_sessions)' = deepcopy(_sessions)
          /\ set_copy(_failed_tools)' = set_copy(_failed_tools)]_vars

\* the caller has added a key to the info of a session in the dict it keeps
\* and a name to the set it keeps; the agent has neither
C16_Witness ==
    /\ listed # None /\ got_failed # None
    /\ \E thread_id \in DOMAIN listed[1] :
          /\ "modified" \in DOMAIN listed[1][thread_id].content
          /\ "modified" \notin DOMAIN _sessions[thread_id]
    /\ web_search \in _failed_tools
    /\ create_plot \in got_failed[1].content \ _failed_tools

(***************************************************************************)
(* Properties of _check_response_complete (SpecComplete)                   *)
(***************************************************************************)
\* text holds one of the failure phrases, in any case
HoldsFailurePhrase(text) ==
    \E k \in 1..Len(failure_phrases) : OccursCI(failure_phrases[k], text)

\* C17: the rules of _check_response_complete in their order: an empty
\* response or the placeholder "No response generated." gives
\* (False, empty_response); any other response that holds a failure phrase, in
\* any case, gives (False, tool_failure); every other response gives
\* (True, None); and the reason is None exactly when the response is complete
C17_CompletenessRules ==
    k_pc = "done" =>
       /\ IF k_response = <<>> \/ k_response = <<"N","o"," ","r","e","s","p","o","n","s","e"," ","g","e","n","e","r","a","t","e","d",".">>
          THEN ~k_is_complete /\ k_retry_reason = "empty_response"
          ELSE IF HoldsFailurePhrase(k_response)
               THEN ~k_is_complete /\ k_retry_reason = "tool_failure"
               ELSE k_is_complete /\ k_retry_reason = "None"
       /\ (k_retry_reason = "None") <=> k_is_complete

\* a response that holds the placeholder and, in capitals, a failure phrase is
\* judged by the second rule
C17_Witness ==
    /\ k_pc = "done"
    /\ k_response = <<"N","o"," ","r","e","s","p","o","n","s","e"," ","g","e","n","e","r","a","t","e","d",".","T","H","E"," ","T","O","O","L"," ","F","A","I","L","E","D">>
    /\ ~k_is_complete
    /\ k_retry_reason = "tool_failure"

(***************************************************************************)
(* Properties of the error log and of the messages (Spec)                  *)
(***************************************************************************)
\* agent.invoke returned in this step: a round was added to rounds
RoundInvoked == Len(rounds') = Len(rounds) + 1 /\ Last(rounds').kind # "error"

\* the records the step added to the error log
RecordsAdded == Len(error_log') - Len(error_log)

\* C18: a round in which tool calls failed adds to the error log one record
\* for each of them, no fewer and no more, whatever the agent's configuration
\* and whatever the thread already holds
C18_OneRecordPerFailure ==
    [][RoundInvoked => RecordsAdded = Last(rounds').failures]_vars

\* never fewer records than failures
C18_NoFailureUnrecorded ==
    [][RoundInvoked => RecordsAdded >= Last(rounds').failures]_vars

\* never more records than failures
C18_NoFailureRecordedTwice ==
    [][RoundInvoked => RecordsAdded <= Last(rounds').failures]_vars

\* what a message of the transcript says: who speaks and the text; the dict
\* query appends for the user and the HumanMessage of the engine say the same
Said(msg) ==
    [role |-> IF msg.type \in {"dict", "human"} THEN "user" ELSE msg.type,
     content |-> msg.content]

Transcript(msgs) == [i \in 1..Len(msgs) |-> Said(msgs[i])]

IsPrefix(s, t) == Len(s) <= Len(t) /\ SubSeq(t, 1, Len(s)) = s

\* C19: the messages of the agent only grow: across queries, their retry
\* rounds, new_session, set_thread_id and clear_memory, what the messages
\* were before a step is a prefix of what they are after it
C19_TranscriptAppendOnly ==
    [][IsPrefix(Transcript(messages), Transcript(messages'))]_vars

\* the same of the steps of query alone
C19_QueryAppendsOnly ==
    [][QueryStep => IsPrefix(Transcript(messages), Transcript(messages'))]_vars

(***************************************************************************)
(* Properties of concurrent queries on one session (SpecConcurrent)        *)
(***************************************************************************)
\* every thread is past the session tracking of its query
AllTracked == \A t \in Threads : t_pc[t] = "tracked"

\* C20: when the NThreads queries that ran at the same time on one thread id
\* have all been counted, the session's query_count is NThreads more than it
\* was before them (0 when the id had no session): no update is lost
C20_ConcurrentQueriesCounted ==
    AllTracked => _sessions[SharedId].query_count = t_before + NThreads

(***************************************************************************)
(* Properties of the results the wrapper is handed and returns (SpecWrap)   *)
(***************************************************************************)
\* the calls of the tool that were followed by another call
RetriedCalls == 1..(w_calls - 1)

\* the parts of C21 that do not depend on which phrases count: a text that
\* reads "No results found" is returned as it is after one call, and a
\* transient-sounding text followed by a success gives the success text
SoftFailureExamples ==
    w_pc = "returned" /\ w_max_retries >= 1 =>
       /\ tool_func[1] = [raises |-> FALSE, text |-> <<"N","o"," ","r","e","s","u","l","t","s"," ","f","o","u","n","d">>] =>
             w_calls = 1 /\ w_returned = Some(<<"N","o"," ","r","e","s","u","l","t","s"," ","f","o","u","n","d">>)
       /\ /\ w_max_retries >= 2
          /\ ~tool_func[1].raises /\ TransientSounding(tool_func[1].text)
          /\ Succeeds(tool_func[2])
          => w_calls = 2 /\ w_returned = Some(tool_func[2].text)

\* C21: a call that returned a text is followed by another call only when the
\* text holds "rate limit", "timeout" or "connection error" (in any case) and
\* attempts remained; "No results found" is returned as it is after exactly
\* one call; a transient-sounding text followed by a success gives the
\* success text
C21_SoftFailureRetriedOnlyIfTransientSounding ==
    /\ \A i \in RetriedCalls :
          ~tool_func[i].raises =>
             TransientSounding(tool_func[i].text) /\ i < w_max_retries
    /\ SoftFailureExamples

\* the same with "api error", the fourth phrase of line 80, counted among
\* the phrases that make a soft failure worth another call
C21_SoftFailureRetriedOnlyIfRetryPhrase ==
    /\ \A i \in RetriedCalls :
          ~tool_func[i].raises =>
             /\ SoftFailure(tool_func[i].text)
             /\ TransientSounding(tool_func[i].text)
                   \/ OccursCI(<<"a","p","i"," ","e","r","r","o","r">>, tool_func[i].text)
             /\ i < w_max_retries
    /\ SoftFailureExamples

\* the decimal numeral of a small number
Numeral(n) ==
    << <<"0">>, <<"1">>, <<"2">>, <<"3">>, <<"4">>, <<"5">>, <<"6">>, <<"7">>,
       <<"8">>, <<"9">> >>[n + 1]

\* "Error after n attempts: text"
ErrorAfter(n, text) == <<"E","r","r","o","r"," ","a","f","t","e","r"," ">> \o Numeral(n) \o <<" ","a","t","t","e","m","p","t","s",":"," ">> \o text

\* the wrapper has returned, and the last thing the tool did was o
GaveUpOn(o) == w_pc = "returned" /\ w_calls >= 1 /\ tool_func[w_calls] = o

C22_WitnessSoftFailure ==
    /\ w_pc = "returned"
    /\ w_max_retries = 2 /\ w_calls = 2
    /\ tool_func[2] = [raises |-> FALSE, text |-> <<"R","a","t","e"," ","l","i","m","i","t"," ","e","x","c","e","e","d","e","d">>]
    /\ w_returned = Some(<<"R","a","t","e"," ","l","i","m","i","t"," ","e","x","c","e","e","d","e","d">>)

(***************************************************************************)
(* Properties of the rounds of a query (Spec)                              *)
(***************************************************************************)
\* the question of the query in progress: the message of its first round
OriginalQuestion == Last(rounds[1].input)

\* round k of the query was given everything the rounds before it were
\* given, the original question included
GivenFullTranscript(k) ==
    /\ \E i \in 1..Len(rounds[k].input) : rounds[k].input[i] = OriginalQuestion
    /\ k > 1 => IsPrefix(rounds[k - 1].input, rounds[k].input)

\* C23: in every round of a query, the first and each retry, with or without
\* session memory, the reasoning engine is given the whole conversation so
\* far: the input of a retry round still holds the original question
C23_EveryRoundGivenFullTranscript ==
    \A k \in 1..Len(rounds) : GivenFullTranscript(k)

\* the same of an agent with session memory
C23_EveryRoundGivenThreadWithMemory ==
    enable_memory => \A k \in 1..Len(rounds) : GivenFullTranscript(k)

\* a corrective follow-up message: every text _build_retry_message makes
\* opens with this sentence
Corrective(text) ==
    LET opening == <<"P","l","e","a","s","e"," ","t","r","y"," ","a","g","a","i","n"," ","t","o"," ","c","o","m","p","l","e","t","e"," ","t","h","e"," ","p","r","e","v","i","o","u","s"," ","r","e","q","u","e","s","t",".">>
    IN  Len(text) >= Len(opening) /\ SubSeq(text, 1, Len(opening)) = opening

\* the step appends a corrective message to the messages, makes it the next
\* round's message and waits RETRY_DELAY
FollowedUp ==
    /\ Corrective(current_message')
    /\ messages' # <<>>
    /\ Said(Last(messages')) = [role |-> "user", content |-> current_message']
    /\ slept' = Append(slept, RETRY_DELAY)
    /\ attempt' = attempt + 1

\* C24: a round that is judged incomplete while attempts remain, the round
\* from which no answer is extracted included, appends a corrective message
\* to the messages as a user message, makes it the message of the next round
\* and waits the fixed delay
C24_IncompleteRoundFollowedUp ==
    [][/\ RoundInvoked
       /\ Last(rounds').kind \in {"incomplete", "nothing"}
       /\ attempt < max_retries - 1
       => FollowedUp]_vars

\* the same of the rounds from which an answer is extracted
C24_IncompleteAnswerFollowedUp ==
    [][/\ RoundInvoked
       /\ Last(rounds').kind = "incomplete"
       /\ attempt < max_retries - 1
       => FollowedUp]_vars

\* the round in which agent.invoke returns reply
RoundWith(reply) ==
    \/ RoundComplete(reply)
    \/ RoundIncompleteRetry(reply)
    \/ RoundIncompleteReturn(reply)
    \/ RoundNoResponse(reply)

\* what the step extracted from the output of the round
Extracted ==
    IF Last(rounds').kind = "nothing" THEN None ELSE Some(Last(rounds').text)

\* the text of the last message of msgs that the assistant wrote and that
\* has text, if there is one
LastAssistantText(msgs) ==
    LET written == { i \in 1..Len(msgs) : msgs[i].type = "ai" /\ msgs[i].content # <<>> }
    IN  IF written = {} THEN None
        ELSE Some(msgs[CHOOSE i \in written : \A j \in written : j <= i].content)

\* C25: the answer extracted from the output of a round is the text of the
\* last message that the assistant wrote, has text and is no tool result;
\* what the user wrote (the question, a corrective message) is never the
\* answer, and without such an assistant message nothing is extracted
C25_AnswerIsLastAssistantText ==
    [][\A reply \in Replies :
          RoundWith(reply) => Extracted = LastAssistantText(output_messages(reply))]_vars

(***************************************************************************)
(* Properties of the failed tools (Spec)                                   *)
(***************************************************************************)
\* a tool result that is a failure: no text, or text that begins with
\* "error" in any case
FailureResult(content) ==
    \/ content = <<>>
    \/ Len(content) >= 5 /\ Folded(SubSeq(content, 1, 5)) = <<"e","r","r","o","r">>

\* the tool whose result is msgs[j]: the results of the calls of one
\* assistant message follow it in the order of the calls
ProducerOf(msgs, j) ==
    LET i == CHOOSE i \in 1..(j - 1) :
                 /\ msgs[i].type = "ai"
                 /\ \A k \in (i + 1)..(j - 1) : msgs[k].type # "ai"
    IN  msgs[i].tool_calls[j - i]

\* the tools that failed in reply
FailedIn(reply) ==
    { ProducerOf(reply, j) :
        j \in { j \in 1..Len(reply) :
                  reply[j].type = "tool" /\ FailureResult(reply[j].content) } }

\* C26: with graceful degradation, a round in which the result of a tool is
\* a failure leaves the name of that tool among the failed tools, whether the
\* agent is verbose or not and also when one assistant message calls several
\* tools
C26_FailedToolTracked ==
    [][\A reply \in Replies :
          graceful_degradation /\ RoundWith(reply) =>
             FailedIn(reply) \subseteq _failed_tools']_vars

\* the same of a verbose agent
C26_FailedToolTrackedWhenVerbose ==
    [][\A reply \in Replies :
          graceful_degradation /\ verbose /\ RoundWith(reply) =>
             FailedIn(reply) \subseteq _failed_tools']_vars

\* the same of a verbose agent and the rounds in which every assistant
\* message calls one tool at most and an answer is extracted
C26_FailedToolTrackedWhenVerboseSingleCalls ==
    [][\A reply \in Replies :
          /\ graceful_degradation /\ verbose /\ RoundWith(reply)
          /\ Last(rounds').kind # "nothing"
          /\ \A i \in 1..Len(reply) : Len(reply[i].tool_calls) <= 1
          => FailedIn(reply) \subseteq _failed_tools']_vars

C27_WitnessLaterRound ==
    /\ pc = "done"
    /\ Len(rounds) = 1
    /\ Last(rounds).failures = 0
    /\ verbose
    /\ _failed_tools # {}

(***************************************************************************)
(* Properties of the degradation notice (Spec)                             *)
(***************************************************************************)
\* the answer a returning query has at hand: that of the round it returns
\* from, or after the last attempt the last answer extracted, or
\* "No response generated."
AnswerAtReturn ==
    IF Len(rounds') > Len(rounds) THEN Last(rounds').text
    ELSE LET answered == { k \in 1..Len(rounds) : Answered(rounds[k]) }
         IN  IF answered = {} THEN NoResponse
             ELSE rounds[CHOOSE k \in answered : \A j \in answered : j <= k].text

\* query returns an answer in this step (not the message of an error)
ReturnsAnswer ==
    /\ pc = "loop" /\ pc' = "done"
    /\ outcome'.kind = "returned"
    /\ Len(rounds') > Len(rounds) => Answered(Last(rounds'))

\* text with the notice of failed_list appended
WithNotice(text, failed_list) ==
    text \o Separator \o get_degradation_message(failed_list)

\* C28: with graceful degradation, the answer query returns has the notice of
\* the failed tools as they are at the return appended if and only if some
\* tool has failed and the answer does not contain the notice; with no failed
\* tool the answer is returned as it is; decorating what is returned once more
\* changes nothing
C28_NoticeAppendedOnce ==
    [][(graceful_degradation /\ ReturnsAnswer) =>
          \E failed_list \in Lists(_failed_tools') :
             LET notice == get_degradation_message(failed_list)
                 appended == outcome'.value = WithNotice(AnswerAtReturn, failed_list)
                             /\ outcome'.value # AnswerAtReturn
             IN  /\ appended <=> (_failed_tools' # {} /\ ~Occurs(notice, AnswerAtReturn))
                 /\ ~appended => outcome'.value = AnswerAtReturn
                 /\ _failed_tools' = {} => outcome'.value = AnswerAtReturn
                 /\ _format_degraded_response(outcome'.value, failed_list) = outcome'.value
      ]_vars

\* a query has returned its answer with the notice appended
C28_Witness ==
    /\ pc = "done"
    /\ graceful_degradation
    /\ rounds # <<>>
    /\ Answered(Last(rounds))
    /\ _failed_tools # {}
    /\ \E failed_list \in Lists(_failed_tools) :
          /\ ~Occurs(get_degradation_message(failed_list), Last(rounds).text)
          /\ outcome = Returned(WithNotice(Last(rounds).text, failed_list))

\* a query has returned an answer that held the notice already, as it is
C28_WitnessAlreadyThere ==
    /\ pc = "done"
    /\ graceful_degradation
    /\ rounds # <<>>
    /\ Answered(Last(rounds))
    /\ _failed_tools # {}
    /\ \E failed_list \in Lists(_failed_tools) :
          Occurs(get_degradation_message(failed_list), Last(rounds).text)
    /\ outcome = Returned(Last(rounds).text)

\* a query has returned "No response generated." with the notice, no answer
\* having been extracted in any round
C28_WitnessNoResponse ==
    /\ pc = "done"
    /\ graceful_degradation
    /\ rounds # <<>>
    /\ \A k \in 1..Len(rounds) : ~Answered(rounds[k])
    /\ _failed_tools # {}
    /\ \E failed_list \in Lists(_failed_tools) :
          outcome = Returned(WithNotice(NoResponse, failed_list))

\* the answer a query that has returned had at hand: the last one extracted
\* in its rounds, or "No response generated."
BestAnswer ==
    LET answered == { k \in 1..Len(rounds) : Answered(rounds[k]) }
    IN  IF answered = {} THEN NoResponse
        ELSE rounds[CHOOSE k \in answered : \A j \in answered : j <= k].text

\* C29: without graceful degradation no tool is ever among the failed tools,
\* the error log and its summary stay empty, and the answer a query returns
\* is the answer as it was extracted, nothing appended
C29_NothingTrackedWithoutDegradation ==
    ~graceful_degradation =>
        /\ _failed_tools = {}
        /\ error_log = <<>>
        /\ get_error_summary(error_log) = EmptyDict
        /\ (/\ pc = "done" /\ outcome.kind = "returned"
            /\ rounds # <<>> /\ Last(rounds).kind # "error")
           => outcome.value = BestAnswer

\* a verbose agent without graceful degradation has returned the answer of a
\* round in which a tool failed
C29_Witness ==
    /\ ~graceful_degradation
    /\ verbose
    /\ pc = "done"
    /\ rounds # <<>>
    /\ Answered(Last(rounds))
    /\ Last(rounds).failures > 0
    /\ outcome = Returned(Last(rounds).text)

(***************************************************************************)
(* Properties of the session of a running query (Spec)                     *)
(***************************************************************************)
\* C30: a query keeps the session id it resolved when it started, also when
\* new_session or set_thread_id changes the agent's current id while it runs:
\* every round is run with that id and changes the checkpointer's thread of
\* that id only, and the one query_count the query adds to, at its start, is
\* that session's
C30_QueryPinnedToSession ==
    /\ [](\A k \in 1..Len(rounds) :
             /\ rounds[k].thread_id \in {None, Some(effective_thread_id)}
             /\ enable_memory => rounds[k].thread_id = Some(effective_thread_id))
    /\ [][pc = "loop" =>
             /\ effective_thread_id' = effective_thread_id
             /\ _sessions' = _sessions
             /\ \A t \in (DOMAIN _checkpointer \cup DOMAIN _checkpointer')
                          \ {effective_thread_id} :
                    thread_messages(t)' = thread_messages(t)]_vars
    /\ [][(pc \in {"idle", "done"} /\ pc' = "loop") =>
             /\ QueryCount(_sessions', effective_thread_id')
                   = QueryCount(_sessions, effective_thread_id') + 1
             /\ \A t \in (DOMAIN _sessions \cup DOMAIN _sessions')
                          \ {effective_thread_id'} :
                    QueryCount(_sessions', t) = QueryCount(_sessions, t)]_vars

\* the agent's current id was changed between the first and the second round
\* of a query; the second round ran with the id of the first, and the new
\* current id has no thread and no session record
C30_Witness ==
    /\ enable_memory
    /\ Len(rounds) >= 2
    /\ rounds[1].current = effective_thread_id
    /\ rounds[2].current # effective_thread_id
    /\ rounds[2].thread_id = Some(effective_thread_id)
    /\ rounds[2].kind # "error"
    /\ _current_thread_id = rounds[2].current
    /\ _current_thread_id \notin DOMAIN _checkpointer
    /\ _current_thread_id \notin DOMAIN _sessions
    /\ QueryCount(_sessions, effective_thread_id) = 1

====
